---- MODULE Spec2Model ----
(***************************************************************************)
(* A model of the Terrestrial Carbon Flux (TCF) engine of                  *)
(* agstack/models.py: the constraint functions, the flux calculators, the  *)
(* day-by-day forward run over the three SOC pools and the spin-up loop.   *)
(*                                                                         *)
(* Numbers.  The program computes in IEEE floating point.  The model       *)
(* computes in exact extended rationals: a value is a record [n, d] with   *)
(* d > 0 and gcd(n, d) = 1 for a finite number, and d = 0 for the three    *)
(* special values NaN (n = 0), +inf (n = 1) and -inf (n = -1).  NaN and    *)
(* the infinities follow the IEEE rules the code relies on (NaN compares   *)
(* false, 0 * inf = NaN, x / 0 = +-inf, inf - inf = NaN).  Rounding to     *)
(* float32/float64 is not modelled: every equality below is an equality    *)
(* of real numbers.  exp and log are replaced by rational stand-ins that   *)
(* keep their sign, monotonicity and fixed points (see ExpQ, Log101).      *)
(*                                                                         *)
(* Specifications.  Spec: an instance of agstack.models.TCF under calls    *)
(* of forward_run and spin_up (FairSpec: the same, a started call keeps    *)
(* running).  ApiSpec: the same instance with the calculators gpp and rh   *)
(* called in between.  FcSpec: an instance of fieldcarb.models.TCF under   *)
(* calls of its forward_run.  UtilSpec: the constraint functions of        *)
(* fieldcarb/utils.py called on their own.  CtorSpec: TCF.__init__ on      *)
(* parameter tables of every form.  BuildSpec: TCF.__init__ on tables      *)
(* lacking a key, on maps of one or two dimensions and on SOC arrays of    *)
(* 2, 3 or 4 pools.  OvrSpec: forward_run on override arrays of 2, 3 or 4  *)
(* pools.  StackSpec: forward_run on driver stacks of 5, 7, 8 or 9 fields. *)
(* PixSpec: forward_run, gpp on cubes and on single-step stacks, rh.       *)
(* LifeSpec: construction from the caller's SOC array, then the calls of   *)
(* Spec.  PrepSpec: fieldcarb.drivers.drivers_for_tcf, then gpp on the     *)
(* cube it returns.                                                        *)
(***************************************************************************)
EXTENDS Integers, Sequences, FiniteSets, TLC

\* ------------------------------------------------------------ numbers

Abs(x) == IF x < 0 THEN -x ELSE x

Sgn(x) == IF x < 0 THEN -1 ELSE IF x > 0 THEN 1 ELSE 0

RECURSIVE GCD(_, _)
GCD(a, b) == IF b = 0 THEN a ELSE GCD(b, a % b)

\* The number n/d in lowest terms (d # 0), or the special value of sign n.
Q(n, d) ==
    IF d = 0 THEN [n |-> Sgn(n), d |-> 0]
    ELSE LET g == GCD(Abs(n), Abs(d))
             s == IF d < 0 THEN -1 ELSE 1
         IN  [n |-> s * (n \div g), d |-> Abs(d) \div g]

I(n) == [n |-> n, d |-> 1]

NaN == [n |-> 0, d |-> 0]

PInf == [n |-> 1, d |-> 0]

NInf == [n |-> -1, d |-> 0]

Zero == I(0)

One == I(1)

IsNaN(a) == a.d = 0 /\ a.n = 0

IsFinite(a) == a.d > 0

Neg(a) == [n |-> -a.n, d |-> a.d]

Mul(a, b) ==
    IF a.d = 0 \/ b.d = 0
    THEN [n |-> Sgn(a.n) * Sgn(b.n), d |-> 0]
    ELSE LET g1 == GCD(Abs(a.n), b.d)
             g2 == GCD(Abs(b.n), a.d)
         IN  [n |-> (a.n \div g1) * (b.n \div g2),
              d |-> (a.d \div g2) * (b.d \div g1)]

Add(a, b) ==
    IF IsNaN(a) \/ IsNaN(b) THEN NaN
    ELSE IF a.d = 0 /\ b.d = 0 THEN (IF a.n = b.n THEN a ELSE NaN)
    ELSE IF a.d = 0 THEN a
    ELSE IF b.d = 0 THEN b
    ELSE LET g == GCD(a.d, b.d)
         IN  Q(a.n * (b.d \div g) + b.n * (a.d \div g), (a.d \div g) * b.d)

Sub(a, b) == Add(a, Neg(b))

Recip(a) ==
    IF IsNaN(a) THEN NaN
    ELSE IF a.d = 0 THEN Zero
    ELSE IF a.n = 0 THEN PInf
    ELSE [n |-> Sgn(a.n) * a.d, d |-> Abs(a.n)]

Div(a, b) == Mul(a, Recip(b))

\* IEEE comparisons: false as soon as one side is NaN.  Finite values are
\* compared by their integer parts and then by their fractional parts.
Lt(a, b) ==
    /\ ~IsNaN(a)
    /\ ~IsNaN(b)
    /\ IF a.d = 0 \/ b.d = 0
       THEN (IF a.d = 0 THEN a.n ELSE 0) < (IF b.d = 0 THEN b.n ELSE 0)
       ELSE IF a.n \div a.d # b.n \div b.d
       THEN a.n \div a.d < b.n \div b.d
       ELSE LET g == GCD(a.d, b.d)
            IN  (a.n % a.d) * (b.d \div g) < (b.n % b.d) * (a.d \div g)

Le(a, b) == ~IsNaN(a) /\ ~IsNaN(b) /\ (a = b \/ Lt(a, b))

Gt(a, b) == Lt(b, a)

Ge(a, b) == Le(b, a)

AbsQ(a) == [n |-> Abs(a.n), d |-> a.d]

\* Stand-in for numpy.exp: exp(0) = 1, exp(z) > 1 for z > 0, 0 < exp(z) < 1
\* for z < 0, increasing, exp(-inf) = 0, exp(inf) = inf, exp(NaN) = NaN.
ExpQ(z) ==
    IF IsNaN(z) THEN NaN
    ELSE IF z = PInf THEN PInf
    ELSE IF z = NInf THEN Zero
    ELSE IF z.n >= 0 THEN Add(One, z)
    ELSE Recip(Sub(One, z))

\* Stand-in for ln(y) / ln(101): 0 at y = 1, 1 at y = 101, increasing and
\* concave for y > 0; -inf at 0 and NaN below 0 or at NaN, as numpy.log.
Log101(y) ==
    IF IsNaN(y) \/ Lt(y, Zero) THEN NaN
    ELSE IF y = Zero THEN NInf
    ELSE IF y = PInf THEN PInf
    ELSE Div(Mul(Sub(y, One), I(102)), Mul(I(100), Add(y, One)))

\* ------------------------------------------------------------ bounds

\* Number of pixels N of the land-cover map.
NPix == 2

\* Largest number of time points T of a driver cube.
MaxT == 3

\* Length of the climatological year; stands for the program's 365.
YearLen == 2

\* Largest max_steps handed to spin_up.
MaxSteps == 3

\* Largest number of daily steps one model instance is taken through.
MaxDays == 6

\* Largest number of top-level calls made on one model instance.
MaxCalls == 2

Pixels == 1..NPix

Pools == 1..3

\* ------------------------------------------------------------ constraint functions

\* arrhenius(): default beta1 = 66.02
beta1 == Q(3301, 50)

\* arrhenius(): default beta2 = 227.13
beta2 == Q(22713, 100)

\* Freezing point used to derive the freeze-thaw flag, 273.15 K
Freezing == Q(5463, 20)

\* A variant of ClampUnit that constrains from below only.
ClampUnit_lower(y0) == IF Lt(y0, Zero) THEN Zero ELSE y0

\* numpy.where(y0 > 1, 1, numpy.where(y0 < 0, 0, y0))
ClampUnit(y0) == IF Gt(y0, One) THEN One ELSE IF Lt(y0, Zero) THEN Zero ELSE y0

\* arrhenius(tsoil, beta0), one element
arrhenius(tsoil, beta0) ==
    LET a  == Div(One, beta1)
        b  == Div(One, Sub(tsoil, beta2))
        y0 == ExpQ(Mul(beta0, Sub(a, b)))
    IN  ClampUnit(y0)

\* A variant of linear_constraint whose ramps end above xmax: x > xmax
linear_constraint_above(xmin, xmax, form, x) ==
    IF form = "reversed"
    THEN (IF Gt(x, xmax) THEN Zero
          ELSE IF Lt(x, xmin) THEN One
          ELSE Sub(One, Div(Sub(x, xmin), Sub(xmax, xmin))))
    ELSE IF form = "binary"
    THEN (IF x = One THEN xmax ELSE xmin)
    ELSE (IF Gt(x, xmax) THEN One
          ELSE IF Lt(x, xmin) THEN Zero
          ELSE Div(Sub(x, xmin), Sub(xmax, xmin)))

\* The function linear_constraint(xmin, xmax, form) returns, applied to one
\* element x.
linear_constraint(xmin, xmax, form, x) ==
    IF form = "reversed"
    THEN (IF Ge(x, xmax) THEN Zero
          ELSE IF Lt(x, xmin) THEN One
          ELSE Sub(One, Div(Sub(x, xmin), Sub(xmax, xmin))))
    ELSE IF form = "binary"
    THEN (IF x = One THEN xmax ELSE xmin)
    ELSE (IF Ge(x, xmax) THEN One
          ELSE IF Lt(x, xmin) THEN Zero
          ELSE Div(Sub(x, xmin), Sub(xmax, xmin)))

\* The assertion linear_constraint makes on its (array) bounds:
\* form == 'binary' or numpy.any(xmax >= xmin)
linear_constraint_ok(xmin, xmax, form) ==
    form = "binary" \/ \E i \in DOMAIN xmin : Ge(xmax[i], xmin[i])

\* The two numpy.where of TCF._rescale_smrz, one element
smrz_clip(smrz0, smrz_min, smrz_max) ==
    IF Lt(smrz0, smrz_min)
    THEN (IF Gt(smrz_min, smrz_max) THEN smrz_max ELSE smrz_min)
    ELSE (IF Gt(smrz0, smrz_max) THEN smrz_max ELSE smrz0)

smrz_norm(smrz0, smrz_min, smrz_max) ==
    Add(Div(Sub(smrz_clip(smrz0, smrz_min, smrz_max), smrz_min),
            Sub(smrz_max, smrz_min)),
        Q(1, 100))

\* TCF._rescale_smrz(smrz0, smrz_min, smrz_max = 1), one element
rescale_smrz(smrz0, smrz_min) ==
    Add(Mul(Q(95, 100), Log101(Mul(smrz_norm(smrz0, smrz_min, One), I(100)))),
        Q(5, 100))

\* numpy.nanmin over a set of values: NaN when every value is NaN.
nanmin(S) ==
    LET fin == {v \in S : ~IsNaN(v)}
    IN  IF fin = {} THEN NaN ELSE CHOOSE m \in fin : \A v \in fin : Le(m, v)

RECURSIVE SumSeq(_)
SumSeq(s) == IF s = <<>> THEN Zero ELSE Add(Head(s), SumSeq(Tail(s)))

\* numpy.nansum: NaN counts as zero.
RECURSIVE NanSumSeq(_)
NanSumSeq(s) ==
    IF s = <<>> THEN Zero
    ELSE Add(IF IsNaN(Head(s)) THEN Zero ELSE Head(s), NanSumSeq(Tail(s)))

\* ------------------------------------------------------------ parameters

\* TCF.required_parameters
required_parameters ==
    {"LUE", "tmin0", "tmin1", "vpd0", "vpd1", "smrz0", "smrz1", "ft0", "CUE",
     "tsoil", "smsf0", "smsf1", "decay_rates", "f_structural", "f_metabolic"}

\* Coefficients of two land-cover classes (0 and 1).  "note" is a key outside
\* the required set.
ClassA ==
    [LUE |-> I(2), tmin0 |-> I(260), tmin1 |-> I(280), vpd0 |-> I(1000),
     vpd1 |-> I(3000), smrz0 |-> Zero, smrz1 |-> Q(1, 10), ft0 |-> Q(1, 2),
     CUE |-> Q(1, 2), tsoil |-> Q(3301, 50), smsf0 |-> Zero,
     smsf1 |-> Q(1, 2), decay_rates |-> <<Q(1, 2), Q(1, 2), Q(1, 2)>>,
     f_structural |-> Q(1, 2), f_metabolic |-> Q(1, 2), note |-> I(7)]

ClassB ==
    [LUE |-> I(1), tmin0 |-> I(250), tmin1 |-> I(270), vpd0 |-> I(1000),
     vpd1 |-> I(3000), smrz0 |-> Zero, smrz1 |-> Q(1, 10), ft0 |-> One,
     CUE |-> Q(1, 2), tsoil |-> Q(9903, 50), smsf0 |-> Zero,
     smsf1 |-> One, decay_rates |-> <<One, Q(1, 2), Zero>>,
     f_structural |-> Q(1, 4), f_metabolic |-> Q(3, 4), note |-> I(9)]

\* A parameter table gives each key a global scalar ("scalar": the test
\* suite's CEREAL_PARAMETERS, decay_rates being 3 values) or one value per
\* class ("perclass": decay_rates being nested per-class lists).
TableScalar == [k \in DOMAIN ClassA |-> [form |-> "scalar", v |-> ClassA[k]]]

TablePerClass ==
    [k \in DOMAIN ClassA |-> [form |-> "perclass", v |-> <<ClassA[k], ClassB[k]>>]]

\* The value of one key in its third form ("array2d"): a 2-D array whose
\* second axis is the class, (1 x classes) and for decay_rates (3 x classes).
Array2d(k, A, B) ==
    IF k = "decay_rates" THEN [p \in Pools |-> <<A[k][p], B[k][p]>>]
    ELSE << <<A[k], B[k]>> >>

\* The value of key k of a table on the classes A (0) and B (1) in a form.
ValueOf(k, form, A, B) ==
    [form |-> form,
     v |-> CASE form = "scalar" -> A[k]
             [] form = "perclass" -> <<A[k], B[k]>>
             [] form = "array2d" -> Array2d(k, A, B)]

ParamForms == {"scalar", "perclass", "array2d"}

\* The table that gives the ordinary keys in form fo and decay_rates in form
\* fd, with or without the key outside the required set.
TableOf(fo, fd, A, B, extra) ==
    [k \in (IF extra THEN DOMAIN A ELSE (DOMAIN A) \cap required_parameters) |->
        ValueOf(k, IF k = "decay_rates" THEN fd ELSE fo, A, B)]

\* A variant of vectorize_array that indexes nested per-class lists of decay
\* rates as it indexes a 2-D array, without swapping the axes.
vectorize_array_unswapped(key, value, lc_map) ==
    IF key = "decay_rates"
    THEN CASE value.form = "scalar" ->
                [p \in Pools |-> [i \in Pixels |-> value.v[p]]]
           [] OTHER ->
                [p \in 1..Len(value.v) |-> [i \in Pixels |->
                    value.v[p][lc_map[i] + 1]]]
    ELSE CASE value.form = "scalar" -> [i \in Pixels |-> <<value.v>>]
           [] value.form = "perclass" ->
                [i \in Pixels |-> <<value.v[lc_map[i] + 1]>>]
           [] value.form = "array2d" ->
                [i \in Pixels |-> [r \in 1..Len(value.v) |->
                    value.v[r][lc_map[i] + 1]]]

\* TCF.__init__, the copy of one parameter's values by land-cover class: the
\* array stored, as the sequence of its rows.  decay_rates: repeat of the 3
\* values, swapaxes(0, 1)[:, lc_map] of nested lists, [:, lc_map] of a 2-D
\* array.  Other keys: repeat of the scalar, ravel()[lc_map].reshape((N, 1))
\* of a 1-D array, [:, lc_map].swapaxes(0, 1) of a 2-D array.
vectorize_array(key, value, lc_map) ==
    IF key = "decay_rates"
    THEN CASE value.form = "scalar" ->
                [p \in Pools |-> [i \in Pixels |-> value.v[p]]]
           [] value.form = "perclass" ->
                [p \in 1..Len(value.v[1]) |-> [i \in Pixels |->
                    value.v[lc_map[i] + 1][p]]]
           [] value.form = "array2d" ->
                [p \in 1..Len(value.v) |-> [i \in Pixels |->
                    value.v[p][lc_map[i] + 1]]]
    ELSE CASE value.form = "scalar" -> [i \in Pixels |-> <<value.v>>]
           [] value.form = "perclass" ->
                [i \in Pixels |-> <<value.v[lc_map[i] + 1]>>]
           [] value.form = "array2d" ->
                [i \in Pixels |-> [r \in 1..Len(value.v) |->
                    value.v[r][lc_map[i] + 1]]]

\* The assertions on the array stored for a key: shape (3, N) for
\* decay_rates; 2 dimensions and N or 3 rows for any key.
vectorize_asserts(key, arr) ==
    /\ key = "decay_rates" => (Len(arr) = 3 /\ \A p \in 1..3 : Len(arr[p]) = NPix)
    /\ Len(arr) = NPix \/ Len(arr) = 3

\* self.params.<key> as the model reads it: the value of pixel i (for
\* decay_rates: of pool p and pixel i).
VectorizeKey(key, value, lc_map) ==
    IF key = "decay_rates" THEN vectorize_array(key, value, lc_map)
    ELSE [i \in Pixels |-> vectorize_array(key, value, lc_map)[i][1]]

\* TCF.__init__, the loop over params.items(): self.params
Vectorize(table, lc_map) ==
    [k \in (DOMAIN table) \cap required_parameters |->
        VectorizeKey(k, table[k], lc_map)]

\* ------------------------------------------------------------ drivers

\* One pixel's driver values on one day, the 8 fields in the fixed order.
Day(fpar, par, tmin, vpd, smrz, ft, tsoil, smsf) ==
    [fpar |-> fpar, par |-> par, tmin |-> tmin, vpd |-> vpd, smrz |-> smrz,
     ft |-> ft, tsoil |-> tsoil, smsf |-> smsf]

\* warm, thawed day; soil at 293.15 K
Warm == Day(One, I(2), I(280), I(1000), Q(1, 2), One, Q(5863, 20), One)

\* cool, frozen day; soil at 260.14 K
Cool == Day(Q(1, 2), I(2), I(270), I(2000), Zero, Zero, Q(13007, 50), One)

\* soil temperature missing
NoTsoil == Day(One, I(2), I(280), I(1000), Q(1, 2), One, NaN, One)

\* radiation missing, dry surface soil
NoPar == Day(One, NaN, I(280), I(1000), Q(1, 4), One, Q(5863, 20), Q(1, 4))

\* A climate is a periodic sequence of days.
Climates == <<
    <<Warm, Cool>>,
    <<Cool, NoTsoil, Warm>>,
    <<NoPar, Warm>> >>

DayOf(c, t) == Climates[c][((t - 1) % Len(Climates[c])) + 1]

\* The (8 x N x T) driver cube of data set c: pixel i follows climate
\* c + i - 1 (cyclically); cube[i][t] holds the 8 fields of pixel i, day t.
Cube(c, T) ==
    [i \in Pixels |-> [t \in 1..T |-> DayOf(((c + i - 2) % Len(Climates)) + 1, t)]]

\* thawing day: minimum temperature exactly 273.15 K, the soil flagged frozen
Brink == Day(One, I(2), Freezing, I(1000), Q(1, 2), Zero, Q(5863, 20), One)

\* mild day: minimum temperature 276 K, the soil flagged frozen
Mild == Day(One, I(2), I(276), I(1000), Q(1, 2), Zero, Q(5863, 20), One)

\* A data set around the freezing point: pixel 1 alternates Brink and Cool,
\* pixel 2 alternates Mild and Warm.
BrinkCube(T) ==
    [i \in Pixels |-> [t \in 1..T |->
        IF i = 1 THEN <<Brink, Cool>>[((t - 1) % 2) + 1]
                 ELSE <<Mild, Warm>>[((t - 1) % 2) + 1]]]

\* One pixel's raw driver values on one day, the 9 raw fields in the fixed
\* order; the fields the days below share are fixed: fPAR 1, short-wave
\* radiation 115741/2250 W m-2, no water vapor, surface pressure 100000 Pa,
\* root-zone wetness 1/2, soil at 293.15 K, surface wetness 1.
RawDay(tmean, tmin) ==
    [fpar |-> One, swrad |-> Q(115741, 2250), tmean |-> tmean, qv2m |-> Zero,
     ps |-> I(100000), tmin |-> tmin, smrz |-> Q(1, 2), tsoil |-> Q(5863, 20),
     smsf |-> One]

\* Raw climates: minimum temperatures of 280 K, 270 K, exactly 273.15 K, and
\* -5 (a series in degrees Celsius).
RawClimates == <<
    <<RawDay(Q(5483, 20), I(280)), RawDay(Freezing, I(270))>>,
    <<RawDay(Freezing, I(270)), RawDay(Freezing, Freezing), RawDay(Q(5483, 20), I(280))>>,
    <<RawDay(Freezing, Freezing), RawDay(Q(5483, 20), I(280))>>,
    <<RawDay(Freezing, I(-5)), RawDay(Q(5483, 20), I(280))>> >>

\* The raw (9 x N x T) cube of data set c: pixel i follows raw climate
\* c + i - 1 (cyclically).
RawCube(c, nT) ==
    [i \in Pixels |-> [t \in 1..nT |->
        RawClimates[((c + i - 2) % Len(RawClimates)) + 1]
                   [((t - 1) % Len(RawClimates[((c + i - 2) % Len(RawClimates)) + 1])) + 1]]]

\* par_from_shortwave: 0.45 * swrad / 11.5741
par_from_shortwave(swrad) == Div(Mul(Q(9, 20), swrad), Q(115741, 10000))

\* vapor_pressure_deficit: 610.7 * exp(17.38 * T_C / (239 + T_C))
\*                         - qv2m * ps / (0.622 + 0.378 * qv2m)
vapor_pressure_deficit(qv2m, ps, temp_k) ==
    Sub(Mul(Q(6107, 10),
            ExpQ(Div(Mul(Q(869, 50), Sub(temp_k, Freezing)),
                     Add(I(239), Sub(temp_k, Freezing))))),
        Div(Mul(qv2m, ps), Add(Q(311, 500), Mul(Q(189, 500), qv2m))))

\* drivers_for_tcf: its four assertions, as they are written (the first two
\* both test smrz; the third tests the minimum of tmin and the maximum of
\* smrz); the maximum is taken as minus the minimum of the negated values.
drivers_for_tcf_raises(raw) ==
    ~ /\ Ge(nanmin({raw[i][t].smrz : i \in Pixels, t \in DOMAIN raw[1]}), Zero)
      /\ Le(Neg(nanmin({Neg(raw[i][t].smrz) : i \in Pixels, t \in DOMAIN raw[1]})), One)
      /\ Ge(nanmin({raw[i][t].tmin : i \in Pixels, t \in DOMAIN raw[1]}), I(200))
      /\ Le(Neg(nanmin({Neg(raw[i][t].smrz) : i \in Pixels, t \in DOMAIN raw[1]})), I(320))
      /\ Ge(nanmin({raw[i][t].tmean : i \in Pixels, t \in DOMAIN raw[1]}), I(200))
      /\ Le(Neg(nanmin({Neg(raw[i][t].tmean) : i \in Pixels, t \in DOMAIN raw[1]})), I(320))

\* drivers_for_tcf on a raw (9 x N x T) cube: the (8 x N x T) cube it
\* returns, with ft = numpy.where(tmin < 0, 0, 1).
drivers_for_tcf(raw) ==
    [i \in Pixels |-> [t \in DOMAIN raw[i] |->
        Day(raw[i][t].fpar,
            par_from_shortwave(raw[i][t].swrad),
            raw[i][t].tmin,
            vapor_pressure_deficit(raw[i][t].qv2m, raw[i][t].ps, raw[i][t].tmean),
            raw[i][t].smrz,
            IF Lt(raw[i][t].tmin, Zero) THEN Zero ELSE One,
            raw[i][t].tsoil,
            raw[i][t].smsf)]]

\* ------------------------------------------------------------ flux calculators

\* A variant of ft_flag that takes exactly 273.15 K for frozen.
ft_flag_inclusive(d, nfields) ==
    IF nfields = 5 THEN (IF Le(d.tmin, Freezing) THEN Zero ELSE One) ELSE d.ft

\* ft0 = numpy.where(tmin < 273.15, 0, 1) when there are 5 fields, else the
\* sixth field
ft_flag(d, nfields) ==
    IF nfields = 5 THEN (IF Lt(d.tmin, Freezing) THEN Zero ELSE One) ELSE d.ft

\* TCF.diagnose_emult on a (P x N x T) cube, P = nfields in {5, 6}: the four
\* multipliers (ft, f_tmin, f_vpd, f_smrz) of pixel i on day t.
diagnose_emult(P, cube, nfields, i, t) ==
    [ft     |-> IF ft_flag(cube[i][t], nfields) = Zero THEN P.ft0[i] ELSE One,
     f_tmin |-> linear_constraint(P.tmin0[i], P.tmin1[i], "standard", cube[i][t].tmin),
     f_vpd  |-> linear_constraint(P.vpd0[i], P.vpd1[i], "reversed", cube[i][t].vpd),
     f_smrz |-> linear_constraint(P.smrz0[i], P.smrz1[i], "standard",
                    rescale_smrz(cube[i][t].smrz,
                                 nanmin({cube[i][u].smrz : u \in DOMAIN cube[i]})))]

\* emult = ft * f_tmin * f_vpd * f_smrz
emult_of(e) == Mul(Mul(Mul(e.ft, e.f_tmin), e.f_vpd), e.f_smrz)

\* TCF.gpp on a cube: GPP of pixel i on day t.
gpp(P, cube, nfields) ==
    [i \in Pixels |-> [t \in DOMAIN cube[i] |->
        Mul(Mul(Mul(cube[i][t].par, cube[i][t].fpar),
                emult_of(diagnose_emult(P, cube, nfields, i, t))),
            P.LUE[i])]]

\* TCF.diagnose_emult on a single-step (P x N) stack, P = nfields in {5, 6}:
\* the drivers are (N,) arrays and the parameters (N x 1) arrays, so every
\* multiplier is broadcast to an (N x N) array whose entry [i][j] applies the
\* parameters of pixel i to the drivers of pixel j; numpy.nanmin(smrz0,
\* axis = -1) of the (N,) array is one number, the minimum over the pixels.
diagnose_emult_stack(P, stack, nfields, i, j) ==
    [ft     |-> IF ft_flag(stack[j], nfields) = Zero THEN P.ft0[i] ELSE One,
     f_tmin |-> linear_constraint(P.tmin0[i], P.tmin1[i], "standard", stack[j].tmin),
     f_vpd  |-> linear_constraint(P.vpd0[i], P.vpd1[i], "reversed", stack[j].vpd),
     f_smrz |-> linear_constraint(P.smrz0[i], P.smrz1[i], "standard",
                    rescale_smrz(stack[j].smrz,
                                 nanmin({stack[u].smrz : u \in Pixels})))]

\* TCF.gpp on a single-step (P x N) stack: the (N x N) array it returns.
gpp_stack(P, stack, nfields) ==
    [i \in Pixels |-> [j \in Pixels |->
        Mul(Mul(Mul(stack[j].par, stack[j].fpar),
                emult_of(diagnose_emult_stack(P, stack, nfields, i, j))),
            P.LUE[i])]]

\* TCF.rh on a (2 x N) driver stack (tsoil, smsf) and a (3 x N) SOC state.
rh(P, tsoil, smsf, soc) ==
    [p \in Pools |-> [i \in Pixels |->
        Mul(Mul(Mul(Mul(linear_constraint(P.smsf0[i], P.smsf1[i], "standard", smsf[i]),
                        arrhenius(tsoil[i], P.tsoil[i])),
                    P.decay_rates[p][i]),
                soc[p][i]),
            IF p = 2 THEN Sub(One, P.f_structural[i]) ELSE One)]]

\* ------------------------------------------------------------ forward run, helpers

\* Sum of f[k] over the finite set S of indices, in increasing order.
RECURSIVE SumOver(_, _)
SumOver(f, S) ==
    IF S = {} THEN Zero
    ELSE LET k == CHOOSE m \in S : \A j \in S : m <= j
         IN  Add(f[k], SumOver(f, S \ {k}))

\* climatology365(x, dates) for one pixel's daily series x, the dates being
\* consecutive days that start on 1 January: the mean, for each day of the
\* year, of the values that fall on that day.
climatology365(x, nT) ==
    [k \in 1..YearLen |->
        LET on == {t \in 1..nT : ((t - 1) % YearLen) + 1 = k}
        IN  Div(SumOver(x, on), I(Cardinality(on)))]

\* A variant of setup_asserts that looks at the drivers only.
setup_asserts_drivers(litter, dates, nT) == ~litter.set => nT >= YearLen

\* The assertions of TCF._setup_forward; dates is the number of dates
\* supplied, 0 when no dates are supplied (None).
setup_asserts(litter, dates, nT) ==
    ~litter.set => (dates # 0 /\ dates >= YearLen /\ nT >= YearLen)

\* Litterfall derived from the mean annual NPP sum: npp_sum / 365
derive_litter(npp, nT) ==
    [i \in Pixels |-> Div(SumOver(climatology365(npp[i], nT), 1..YearLen), I(YearLen))]

\* npp = self.params.CUE * gpp
npp_of(P, g, nT) == [i \in Pixels |-> [t \in 1..nT |-> Mul(P.CUE[i], g[i][t])]]

\* A variant of setup_rest that derives the litterfall in every call.
setup_rest_rederive(P, litter, cube, nT, g, npp) ==
    [gpp    |-> g,
     npp    |-> npp,
     litter |-> derive_litter(npp, nT),
     tmult  |-> [t \in 1..nT |-> [i \in Pixels |->
                    arrhenius(cube[i][t].tsoil, P.tsoil[i])]],
     wmult  |-> [t \in 1..nT |-> [i \in Pixels |->
                    linear_constraint(P.smsf0[i], P.smsf1[i], "standard",
                                      cube[i][t].smsf)]]]

\* The rest of TCF._setup_forward, gpp and npp being known.
setup_rest(P, litter, cube, nT, g, npp) ==
    [gpp    |-> g,
     npp    |-> npp,
     litter |-> IF litter.set THEN litter.v ELSE derive_litter(npp, nT),
     tmult  |-> [t \in 1..nT |-> [i \in Pixels |->
                    arrhenius(cube[i][t].tsoil, P.tsoil[i])]],
     wmult  |-> [t \in 1..nT |-> [i \in Pixels |->
                    linear_constraint(P.smsf0[i], P.smsf1[i], "standard",
                                      cube[i][t].smsf)]]]

setup_npp(P, litter, cube, nT, g) ==
    setup_rest(P, litter, cube, nT, g, npp_of(P, g, nT))

\* TCF._setup_forward past its assertions: (gpp, npp, litter, tmult, wmult);
\* tmult and wmult have time as their first axis.
setup_forward(P, litter, cube, nT) ==
    setup_npp(P, litter, cube, nT, gpp(P, cube, 6))

\* rh_t[pool] = decay_rates[pool] * wmult[t] * tmult[t] * soc[pool]
respiration(P, wm, tm, soc) ==
    [p \in Pools |-> [i \in Pixels |->
        Mul(Mul(Mul(P.decay_rates[p][i], wm[i]), tm[i]), soc[p][i])]]

\* A variant of pool_deltas with the structural share of the litterfall
\* written as (f_metabolic - 1).
pool_deltas_signed(P, litter, rh_t) ==
    <<[i \in Pixels |-> Sub(Mul(litter[i], P.f_metabolic[i]), rh_t[1][i])],
      [i \in Pixels |-> Sub(Mul(litter[i], Sub(P.f_metabolic[i], One)), rh_t[2][i])],
      [i \in Pixels |-> Sub(Mul(P.f_structural[i], rh_t[2][i]), rh_t[3][i])]>>

\* A variant of pool_deltas that feeds the recalcitrant pool from the
\* structural respiration as reduced by humification.
pool_deltas_reduced(P, litter, rh_t) ==
    <<[i \in Pixels |-> Sub(Mul(litter[i], P.f_metabolic[i]), rh_t[1][i])],
      [i \in Pixels |-> Sub(Mul(litter[i], Sub(One, P.f_metabolic[i])), rh_t[2][i])],
      [i \in Pixels |->
          Sub(Mul(P.f_structural[i], Mul(rh_t[2][i], Sub(One, P.f_structural[i]))),
              rh_t[3][i])]>>

\* dc1, dc2, dc3 of one day
pool_deltas(P, litter, rh_t) ==
    <<[i \in Pixels |-> Sub(Mul(litter[i], P.f_metabolic[i]), rh_t[1][i])],
      [i \in Pixels |-> Sub(Mul(litter[i], Sub(One, P.f_metabolic[i])), rh_t[2][i])],
      [i \in Pixels |-> Sub(Mul(P.f_structural[i], rh_t[2][i]), rh_t[3][i])]>>

\* A variant of zero_nan that leaves the deltas as they are.
zero_nan_keep(delta) == delta

\* delta[numpy.isnan(delta)] = 0
zero_nan(delta) == [i \in Pixels |-> IF IsNaN(delta[i]) THEN Zero ELSE delta[i]]

\* soc[i] += delta[0], for the three pools
apply_deltas(soc, dc) ==
    [p \in Pools |-> [i \in Pixels |-> Add(soc[p][i], zero_nan(dc[p])[i])]]

\* A variant of humify that reduces the respiration of the recalcitrant pool.
humify_recalcitrant(P, rh_t) ==
    [rh_t EXCEPT ![3] = [i \in Pixels |->
                           Mul(rh_t[3][i], Sub(One, P.f_structural[i]))]]

\* A variant of humify that records the structural respiration in full.
humify_none(P, rh_t) == rh_t

\* rh_t[1] = rh_t[1] * (1 - f_structural)
humify(P, rh_t) ==
    [rh_t EXCEPT ![2] = [i \in Pixels |->
                           Mul(rh_t[2][i], Sub(One, P.f_structural[i]))]]

\* A variant of nee_of with the opposite sign convention (uptake positive).
nee_uptake(rh_t, npp_t) ==
    [i \in Pixels |-> Sub(npp_t[i], Add(Add(rh_t[1][i], rh_t[2][i]), rh_t[3][i]))]

\* nee[..., t] = rh_t.sum(axis = 0) - npp[..., t]
nee_of(rh_t, npp_t) ==
    [i \in Pixels |-> Sub(Add(Add(rh_t[1][i], rh_t[2][i]), rh_t[3][i]), npp_t[i])]

\* One pass of the body of the loop over t in TCF.forward_run: the SOC after
\* the day and what is recorded for it.
day_result(P, soc, litter, npp_t, rh_t) ==
    [soc |-> apply_deltas(soc, pool_deltas(P, litter, rh_t)),
     rh  |-> humify(P, rh_t),
     nee |-> nee_of(humify(P, rh_t), npp_t)]

day_step(P, soc, litter, wm, tm, npp_t) ==
    day_result(P, soc, litter, npp_t, respiration(P, wm, tm, soc))

\* ------------------------------------------------------------ state

VARIABLES
    params,      \* self.params: the vectorized parameters
    soc,         \* self.state.soc: the model's (3 x N) SOC array
    litterfall,  \* self.constants.litterfall: [set, v], v one value per pixel
    ext,         \* a (3 x N) SOC array owned by the caller (state override)
    drivers,     \* the caller's (8 x N x T) driver cube
    T,           \* its number of time points; the dates, when given, are T
    pc,          \* "idle", "fwd" (in forward_run), "spin" (in spin_up's loop)
    fr,          \* the locals of the running forward_run
    sp,          \* the locals of the running spin_up
    ret,         \* what the last finished call returned or raised
    calls,       \* number of top-level calls started
    days,        \* number of daily steps taken so far
    prev,        \* history: the updated SOC array as it was before the last daily step
    soc_in,      \* history: that array when the running forward_run was called
    spin_in,     \* history: that array when the running spin_up was called
    seen,        \* history: per number of fields, the first output of gpp
    calc         \* the last call of a constraint function: arguments and result

vars == <<params, soc, litterfall, ext, drivers, T, pc, fr, sp, ret, calls,
          days, prev, soc_in, spin_in, seen, calc>>

\* self.constants.litterfall is None
NoLitter == [set |-> FALSE, v |-> <<>>]

Litter(v) == [set |-> TRUE, v |-> v]

NoFrame == [t |-> 0]

NoSpin == [step |-> 0]

NoRet == [kind |-> "none"]

Error == [kind |-> "AssertionError"]

\* No constraint function has been called on its own.
NoCalc == [fn |-> "none"]

\* No call of gpp has returned yet.
NoneSeen == [nfields \in {5, 6} |-> [set |-> FALSE]]

\* Initial SOC of pool p, pixel i, for the two initial states tried.
SocInits ==
    {[p \in Pools |-> [i \in Pixels |-> I(<<4, 2, 8>>[p] + i - 1)]],
     [p \in Pools |-> [i \in Pixels |-> Zero]]}

\* Thresholds handed to spin_up.
Thresholds == {Q(1, 4), I(100)}

\* TCF.__init__ followed by the caller's choice of a data set.
Init ==
    /\ \E table \in {TableScalar, TablePerClass} :
           params = Vectorize(table, [i \in Pixels |-> (i - 1) % 2])
    /\ soc \in SocInits
    /\ litterfall \in {NoLitter, Litter([i \in Pixels |-> One])}
    /\ ext = [p \in Pools |-> [i \in Pixels |-> I(p)]]
    /\ T \in 1..MaxT
    /\ \E c \in 1..Len(Climates) : drivers = Cube(c, T)
    /\ pc = "idle"
    /\ fr = NoFrame
    /\ sp = NoSpin
    /\ ret = NoRet
    /\ calls = 0
    /\ days = 0
    /\ prev = soc
    /\ soc_in = soc
    /\ spin_in = soc
    /\ seen = NoneSeen
    /\ calc = NoCalc

\* The array the running call updates: soc = state; if soc is None:
\* soc = self.state.soc
Target(ovr) == IF ovr THEN ext ELSE soc

\* The frame of forward_run after _setup_forward and the pre-allocation of
\* the outputs (numpy.ones).
enter_forward(su, ovr, dyn, nested) ==
    [t |-> 0, dyn |-> dyn, ovr |-> ovr, nested |-> nested,
     gpp |-> su.gpp, npp |-> su.npp, litter |-> su.litter,
     tmult |-> su.tmult, wmult |-> su.wmult,
     rh  |-> [p \in Pools |-> [i \in Pixels |-> [t \in 1..T |-> One]]],
     nee |-> [i \in Pixels |-> [t \in 1..T |-> One]]]

\* forward_run(drivers, state, dates, dynamic_litter) is called: the
\* assertions, then _setup_forward, which stores a derived litterfall.
ForwardRunCall(ovr, dyn, dates) ==
    /\ pc = "idle"
    /\ calls < MaxCalls
    /\ days + T <= MaxDays
    /\ calls' = calls + 1
    /\ IF setup_asserts(litterfall, dates, T)
       THEN     /\ fr' = enter_forward(setup_forward(params, litterfall, drivers, T),
                                       ovr, dyn, FALSE)
                /\ litterfall' = Litter(fr'.litter)
                /\ pc' = "fwd"
                /\ soc_in' = Target(ovr)
                /\ UNCHANGED ret
       ELSE /\ ret' = Error
            /\ UNCHANGED <<litterfall, fr, pc, soc_in>>
    /\ UNCHANGED <<params, seen, calc, soc, ext, drivers, T, sp, days, prev, spin_in>>

\* Driver stacks of 5, 7, 8 and 9 fields, each the list of the fields it
\* holds, in order: the 5 fields of a GPP call, the 8 fields without the
\* freeze-thaw field, the 8 fields, the 8 fields followed by one more (the
\* minimum temperature once again).
Layouts ==
    {<<"fpar", "par", "tmin", "vpd", "smrz">>,
     <<"fpar", "par", "tmin", "vpd", "smrz", "tsoil", "smsf">>,
     <<"fpar", "par", "tmin", "vpd", "smrz", "ft", "tsoil", "smsf">>,
     <<"fpar", "par", "tmin", "vpd", "smrz", "ft", "tsoil", "smsf", "tmin">>}

\* What _setup_forward reads from a stack of Len(layout) >= 5 fields, by
\* position: gpp(drivers[0:6]) unpacks the first 5 or 6 fields;
\* tsoil, smsf = drivers[-2:] are the last two.  With 5 fields gpp derives
\* the freeze-thaw flag and never reads a sixth.
unpack_fields(cube, layout) ==
    [i \in Pixels |-> [t \in DOMAIN cube[i] |->
        Day(cube[i][t][layout[1]], cube[i][t][layout[2]], cube[i][t][layout[3]],
            cube[i][t][layout[4]], cube[i][t][layout[5]],
            cube[i][t][layout[IF Len(layout) = 5 THEN 5 ELSE 6]],
            cube[i][t][layout[Len(layout) - 1]],
            cube[i][t][layout[Len(layout)]])]]

\* forward_run(drivers, state, dates, dynamic_litter) is called on a stack of
\* the caller's fields in the given layout: the assertions, then
\* _setup_forward, which reads the stack by position and stores a derived
\* litterfall.  calc keeps the number of fields of the stack.
ForwardRunStack(layout, ovr, dyn, dates) ==
    /\ pc = "idle"
    /\ calls < MaxCalls
    /\ days + T <= MaxDays
    /\ calls' = calls + 1
    /\ calc' = [fn |-> "forward_run", nfields |-> Len(layout)]
    /\ IF setup_asserts(litterfall, dates, T)
       THEN     /\ fr' = enter_forward(
                             setup_npp(params, litterfall,
                                 unpack_fields(drivers, layout), T,
                                 gpp(params, unpack_fields(drivers, layout),
                                     IF Len(layout) = 5 THEN 5 ELSE 6)),
                             ovr, dyn, FALSE)
                /\ litterfall' = Litter(fr'.litter)
                /\ pc' = "fwd"
                /\ soc_in' = Target(ovr)
                /\ UNCHANGED ret
       ELSE /\ ret' = Error
            /\ UNCHANGED <<litterfall, fr, pc, soc_in>>
    /\ UNCHANGED <<params, seen, soc, ext, drivers, T, sp, days, prev, spin_in>>

\* A variant of litter_of that takes the NPP of the day whether or not
\* dynamic_litter is set.
litter_of_daily(f, t) == [i \in Pixels |-> f.npp[i][t]]

\* A variant of litter_of in which dynamic_litter takes effect after the
\* first day.
litter_of_lagged(f, t) ==
    IF f.dyn /\ t > 1 THEN [i \in Pixels |-> f.npp[i][t]] ELSE f.litter

\* The litterfall of day t (1-based): litter = npp[..., t] when
\* dynamic_litter, else the constant.
litter_of(f, t) == IF f.dyn THEN [i \in Pixels |-> f.npp[i][t]] ELSE f.litter

\* A variant of next_day that walks the days from the last to the first.
next_day_desc(f) == T - f.t

\* steps = range(0, drivers.shape[-1]): the day (1-based) the loop handles
\* after f.t passes.
next_day(f) == f.t + 1

\* A variant of record_day that writes every update to the model's stored
\* SOC.
record_day_stored(t, r) ==
    /\ soc' = r.soc
    /\ UNCHANGED ext
    /\ fr' = [fr EXCEPT !.t = @ + 1,
                !.rh = [p \in Pools |-> [i \in Pixels |->
                          [fr.rh[p][i] EXCEPT ![t] = r.rh[p][i]]]],
                !.nee = [i \in Pixels |-> [fr.nee[i] EXCEPT ![t] = r.nee[i]]]]

\* soc[i] += delta[0]; rh[..., t] = rh_t; nee[..., t] = ...: the result r of
\* day t is written to the SOC array and to the outputs.
record_day(t, r) ==
    /\ IF fr.ovr THEN ext' = r.soc /\ UNCHANGED soc
                 ELSE soc' = r.soc /\ UNCHANGED ext
    /\ fr' = [fr EXCEPT !.t = @ + 1,
                !.rh = [p \in Pools |-> [i \in Pixels |->
                          [fr.rh[p][i] EXCEPT ![t] = r.rh[p][i]]]],
                !.nee = [i \in Pixels |-> [fr.nee[i] EXCEPT ![t] = r.nee[i]]]]

\* One pass of the loop "for t in steps" of forward_run.
ForwardStep ==
    /\ pc = "fwd"
    /\ fr.t < T
    /\ Len(Target(fr.ovr)) = 3
    /\ record_day(next_day(fr),
                  day_step(params, Target(fr.ovr), litter_of(fr, next_day(fr)),
                           fr.wmult[next_day(fr)], fr.tmult[next_day(fr)],
                           [i \in Pixels |-> fr.npp[i][next_day(fr)]]))
    /\ prev' = Target(fr.ovr)
    /\ days' = days + 1
    /\ UNCHANGED <<params, seen, calc, litterfall, drivers, T, pc, sp, ret, calls, soc_in, spin_in>>

\* An index outside an array's first axis
IndexError == [kind |-> "IndexError"]

\* rh_t = numpy.empty((3, N)); for pool in range(0, soc.shape[0]): rh_t[pool]
\* = ..., on a SOC array of fewer than 3 pools: the rows of the missing pools
\* keep what numpy.empty left there (junk).
respiration_short(P, wm, tm, soc_, junk) ==
    [p \in Pools |-> [i \in Pixels |->
        IF p <= Len(soc_)
        THEN Mul(Mul(Mul(P.decay_rates[p][i], wm[i]), tm[i]), soc_[p][i])
        ELSE junk]]

\* for i, delta in enumerate([dc1, dc2, dc3]): soc[i] += delta[0], on a SOC
\* array of fewer than 3 pools: the pools it has are updated, then soc[i]
\* raises IndexError.
apply_deltas_short(soc_, dc) ==
    [p \in 1..Len(soc_) |-> [i \in Pixels |-> Add(soc_[p][i], zero_nan(dc[p])[i])]]

\* A pass of the loop "for t in steps" of forward_run on a SOC array that
\* does not have 3 pools.  More than 3: decay_rates[3] raises IndexError in
\* the loop over the pools, before any update.  Fewer than 3: the updates of
\* the pools it has are made before soc[i] raises IndexError.
ForwardAbort ==
    /\ pc = "fwd"
    /\ fr.t < T
    /\ Len(Target(fr.ovr)) # 3
    /\ fr.ovr
    /\ \E junk \in {Zero, NaN} :
           ext' = IF Len(ext) > 3 THEN ext
                  ELSE apply_deltas_short(ext,
                           pool_deltas(params, litter_of(fr, next_day(fr)),
                               respiration_short(params, fr.wmult[next_day(fr)],
                                                 fr.tmult[next_day(fr)], ext, junk)))
    /\ prev' = ext
    /\ ret' = IndexError
    /\ pc' = "idle"
    /\ UNCHANGED <<params, seen, calc, soc, litterfall, drivers, T, fr, sp, calls,
                   days, soc_in, spin_in>>

\* return (nee, gpp, rh), to the caller of a top-level forward_run.
ForwardReturn ==
    /\ pc = "fwd"
    /\ fr.t = T
    /\ ~fr.nested
    /\ ret' = [kind |-> "forward_run", nee |-> fr.nee, gpp |-> fr.gpp, rh |-> fr.rh]
    /\ pc' = "idle"
    /\ UNCHANGED <<params, seen, calc, soc, litterfall, ext, drivers, T, fr, sp, calls, days,
                   prev, soc_in, spin_in>>

\* ------------------------------------------------------------ spin-up

\* nee_sum = numpy.nansum(nee, axis = -1)
nee_sum_of(nee) == [i \in Pixels |-> NanSumSeq([t \in 1..T |-> nee[i][t]])]

\* A variant of converged that is content with one pixel: .any()
converged_any(tol, threshold) == \E i \in Pixels : Lt(AbsQ(tol[i]), threshold)

\* (numpy.abs(tolerance[:, step]) < threshold).all()
converged(tol, threshold) == \A i \in Pixels : Lt(AbsQ(tol[i]), threshold)

\* The drivers spin_up hands to forward_run in each cycle.
cycle_drivers == drivers

\* tolerance[:,step] = nee_last - nee_sum; nee_last = nee_sum; the test
cycle_tol(s, nee_sum, tol) ==
    [s EXCEPT !.tolerance = [i \in Pixels |->
                               [s.tolerance[i] EXCEPT ![s.step + 1] = tol[i]]],
              !.nee_last = nee_sum,
              !.broke = converged(tol, s.threshold),
              !.step = @ + 1,
              !.cycles = @ + 1]

\* A variant of cycle_sum that records the change from the previous cycle to
\* this one: nee_sum - nee_last
cycle_sum_reversed(s, nee_sum) ==
    IF s.step = 0
    THEN [s EXCEPT !.nee_last = nee_sum, !.step = @ + 1, !.cycles = @ + 1]
    ELSE cycle_tol(s, nee_sum, [i \in Pixels |-> Sub(nee_sum[i], s.nee_last[i])])

\* if step == 0: nee_last = nee_sum; else: the tolerance and the test
cycle_sum(s, nee_sum) ==
    IF s.step = 0
    THEN [s EXCEPT !.nee_last = nee_sum, !.step = @ + 1, !.cycles = @ + 1]
    ELSE cycle_tol(s, nee_sum, [i \in Pixels |-> Sub(s.nee_last[i], nee_sum[i])])

\* The body of the loop of spin_up after forward_run has returned nee: the
\* frame after the bookkeeping of cycle "step" (0-based); hist keeps the NEE
\* of every cycle.
after_cycle(s, nee) ==
    [cycle_sum(s, nee_sum_of(nee)) EXCEPT !.hist = Append(@, nee)]

\* clim: climatology365 of each driver field, for every pixel
clim_of(cube, nT) ==
    [i \in Pixels |-> [f \in DOMAIN cube[i][1] |->
        climatology365([t \in 1..nT |-> cube[i][t][f]], nT)]]

\* spin_up(dates, drivers, state, max_steps, threshold) is called; the
\* climatology it computes first (clim) is never read afterwards.
SpinUpCall(ovr, max_steps, threshold) ==
    /\ pc = "idle"
    /\ calls < MaxCalls
    /\ days + max_steps * T <= MaxDays
    /\ calls' = calls + 1
    /\ sp' = [step |-> 0, max_steps |-> max_steps, threshold |-> threshold,
              tolerance |-> [i \in Pixels |-> [k \in 1..max_steps |-> NaN]],
              nee_last |-> [i \in Pixels |-> NaN], ovr |-> ovr, broke |-> FALSE,
              cycles |-> 0, hist |-> <<>>, clim |-> clim_of(drivers, T)]
    /\ spin_in' = Target(ovr)
    /\ pc' = "spin"
    /\ UNCHANGED <<params, seen, calc, soc, litterfall, ext, drivers, T, fr, ret, days, prev, soc_in>>

\* A variant of loop_continues that runs one cycle more: range(0, max_steps + 1)
loop_continues_incl(s) == s.step <= s.max_steps /\ ~s.broke

\* for step in range(0, max_steps), left early by the break
loop_continues(s) == s.step < s.max_steps /\ ~s.broke

\* A variant of cycle_start that starts every cycle from the SOC spin_up
\* was called with.
cycle_start_reset(ovr) == spin_in

\* The SOC a cycle starts from: the array spin_up holds, as the previous
\* cycle left it.
cycle_start(ovr) == Target(ovr)

\* The loop of spin_up starts a cycle:
\* forward_run(drivers, soc, dates, verbose = False)
SpinCycle ==
    /\ pc = "spin"
    /\ loop_continues(sp)
    /\ IF sp.ovr THEN ext' = cycle_start(sp.ovr) /\ UNCHANGED soc
                 ELSE soc' = cycle_start(sp.ovr) /\ UNCHANGED ext
    /\ IF setup_asserts(litterfall, T, T)
       THEN     /\ fr' = enter_forward(setup_forward(params, litterfall, cycle_drivers, T),
                                       sp.ovr, FALSE, TRUE)
                /\ litterfall' = Litter(fr'.litter)
                /\ pc' = "fwd"
                /\ soc_in' = cycle_start(sp.ovr)
                /\ UNCHANGED ret
       ELSE /\ ret' = Error
            /\ pc' = "idle"
            /\ UNCHANGED <<litterfall, fr, soc_in>>
    /\ UNCHANGED <<params, seen, calc, drivers, T, sp, calls, days, prev, spin_in>>

\* forward_run returns into the loop of spin_up: the convergence test.
SpinCycleEnd ==
    /\ pc = "fwd"
    /\ fr.t = T
    /\ fr.nested
    /\ sp' = after_cycle(sp, fr.nee)
    /\ pc' = "spin"
    /\ UNCHANGED <<params, seen, calc, soc, litterfall, ext, drivers, T, fr, ret, calls, days,
                   prev, soc_in, spin_in>>

\* return tolerance: after the break, or when range(0, max_steps) is used up.
SpinUpReturn ==
    /\ pc = "spin"
    /\ ~loop_continues(sp)
    /\ ret' = [kind |-> "spin_up", tolerance |-> sp.tolerance]
    /\ pc' = "idle"
    /\ UNCHANGED <<params, seen, calc, soc, litterfall, ext, drivers, T, fr, sp, calls, days,
                   prev, soc_in, spin_in>>

\* ------------------------------------------------------------ calculators, called

\* A variant of GppCall that writes the freeze-thaw flag it derives into the
\* caller's cube.
GppCall_inplace(nfields) ==
    /\ pc = "idle"
    /\ ret' = [kind |-> "gpp", nfields |-> nfields,
               out |-> gpp(params, drivers, nfields)]
    /\ seen' = IF seen[nfields].set THEN seen
               ELSE [seen EXCEPT ![nfields] =
                        [set |-> TRUE, out |-> ret'.out, days |-> days]]
    /\ drivers' = [i \in Pixels |-> [t \in 1..T |->
                      [drivers[i][t] EXCEPT !.ft = ft_flag(drivers[i][t], nfields)]]]
    /\ UNCHANGED <<params, calc, soc, litterfall, ext, T, pc, fr, sp, calls,
                   days, prev, soc_in, spin_in>>

\* gpp(drivers) is called on the first nfields fields of the cube and returns.
GppCall(nfields) ==
    /\ pc = "idle"
    /\ ret' = [kind |-> "gpp", nfields |-> nfields,
               out |-> gpp(params, drivers, nfields)]
    /\ seen' = IF seen[nfields].set THEN seen
               ELSE [seen EXCEPT ![nfields] =
                        [set |-> TRUE, out |-> ret'.out, days |-> days]]
    /\ UNCHANGED <<params, calc, soc, litterfall, ext, drivers, T, pc, fr, sp,
                   calls, days, prev, soc_in, spin_in>>

\* The single-step (P x N) stack of day t: drivers[..., t]
stack_of(cube, t) == [i \in Pixels |-> cube[i][t]]

\* gpp(drivers) is called on the first nfields fields of the single-step
\* stack of day t and returns.
GppStackCall(nfields, t) ==
    /\ pc = "idle"
    /\ ret' = [kind |-> "gpp_stack", nfields |-> nfields, t |-> t,
               out |-> gpp_stack(params, stack_of(drivers, t), nfields)]
    /\ UNCHANGED <<params, seen, calc, soc, litterfall, ext, drivers, T, pc, fr, sp,
                   calls, days, prev, soc_in, spin_in>>

\* The (2 x N) stack (tsoil, smsf) of day t
tsoil_of(cube, t) == [i \in Pixels |-> cube[i][t].tsoil]

smsf_of(cube, t) == [i \in Pixels |-> cube[i][t].smsf]

\* rh(drivers, state) is called on the last two fields of day t and returns.
RhCall(ovr, t) ==
    /\ pc = "idle"
    /\ ret' = [kind |-> "rh", ovr |-> ovr, t |-> t,
               out |-> rh(params, tsoil_of(drivers, t), smsf_of(drivers, t),
                          Target(ovr))]
    /\ UNCHANGED <<params, seen, calc, soc, litterfall, ext, drivers, T, pc, fr, sp,
                   calls, days, prev, soc_in, spin_in>>

\* ------------------------------------------------------------ constraint functions, called

\* Soil temperatures handed to arrhenius: missing, infinite, below beta2, at
\* beta2, above it.
TsoilVals ==
    {NaN, NInf, Zero, I(200), beta2, I(228), Q(13007, 50), Q(5863, 20), I(400), PInf}

\* Values of the coefficient beta0 (the parameter tsoil of the two classes).
Beta0Vals == {ClassA.tsoil, ClassB.tsoil}

\* Bounds handed to linear_constraint, per pixel.
BoundVals == {Zero, One, I(2)}

\* Inputs handed to the function it returns, per pixel.
XVals == {NaN, NInf, I(-1), Zero, Q(1, 2), One, Q(3, 2), I(2), I(3), PInf}

Forms == {"standard", "reversed", "binary"}

\* arrhenius(tsoil, beta0) is called on one value and returns.
ArrheniusCall(tsoil, beta0) ==
    /\ calc = NoCalc
    /\ calc' = [fn |-> "arrhenius", tsoil |-> tsoil, beta0 |-> beta0,
                out |-> arrhenius(tsoil, beta0)]
    /\ UNCHANGED <<params, seen, soc, litterfall, ext, drivers, T, pc, fr, sp, ret,
                   calls, days, prev, soc_in, spin_in>>

\* linear_constraint(xmin, xmax, form)(x) is called on per-pixel arrays: the
\* assertion on the bounds, then the returned function applied to x.
LinearConstraintCall(xmin, xmax, form, x) ==
    /\ calc = NoCalc
    /\ calc' = [fn |-> "linear_constraint", xmin |-> xmin, xmax |-> xmax,
                form |-> form, x |-> x,
                raised |-> ~linear_constraint_ok(xmin, xmax, form),
                out |-> IF linear_constraint_ok(xmin, xmax, form)
                        THEN [i \in Pixels |->
                                 linear_constraint(xmin[i], xmax[i], form, x[i])]
                        ELSE <<>>]
    /\ UNCHANGED <<params, seen, soc, litterfall, ext, drivers, T, pc, fr, sp, ret,
                   calls, days, prev, soc_in, spin_in>>

\* drivers_for_tcf(raw) is called once on a raw cube of T days and returns
\* the cube the caller goes on with, or fails on an assertion.
DriversForTcfCall(raw) ==
    /\ pc = "idle"
    /\ calc = NoCalc
    /\ calc' = [fn |-> "drivers_for_tcf", raw |-> raw,
                raised |-> drivers_for_tcf_raises(raw)]
    /\ drivers' = IF drivers_for_tcf_raises(raw) THEN drivers ELSE drivers_for_tcf(raw)
    /\ ret' = IF drivers_for_tcf_raises(raw) THEN Error
              ELSE [kind |-> "drivers_for_tcf"]
    /\ UNCHANGED <<params, seen, soc, litterfall, ext, T, pc, fr, sp, calls, days,
                   prev, soc_in, spin_in>>

\* ------------------------------------------------------------ construction

\* Land-cover maps: every assignment of the classes 0 and 1 to the pixels.
LcMaps == [Pixels -> {0, 1}]

\* A parameter table without its key k.
Lacking(table, k) == [j \in (DOMAIN table) \ {k} |-> table[j]]

\* SOC arrays with a pool too few and a pool too many, (2 x N) and (4 x N).
SocMisshapen ==
    {[p \in 1..2 |-> [i \in Pixels |-> I(p)]],
     [p \in 1..4 |-> [i \in Pixels |-> I(p)]]}

\* assert len(state) == 3, on a 2-D state (which meets state.ndim <= 2)
state_assert(state) == Len(state) = 3

\* Number of dimensions of the array built for a key, the land-cover map
\* having lc_ndim dimensions: indexing with the map ([:, lc_map]) puts the
\* map's axes in the place of the class axis; repeat and
\* ravel()[lc_map].reshape((N, 1)) give 2 dimensions for any map.
vectorize_ndim(key, value, lc_ndim) ==
    IF key = "decay_rates"
    THEN (IF value.form = "scalar" THEN 2 ELSE 1 + lc_ndim)
    ELSE (IF value.form = "array2d" THEN 1 + lc_ndim ELSE 2)

\* TCF.__init__ raises: the assertion on the state, or for some required key
\* of the table an assertion on the array built (its shape for decay_rates,
\* its 2 dimensions and its number of rows for any key).
construct_raises(table, lc_map, lc_ndim, state) ==
    \/ ~state_assert(state)
    \/ \E k \in (DOMAIN table) \cap required_parameters :
           \/ vectorize_ndim(k, table[k], lc_ndim) # 2
           \/ ~vectorize_asserts(k, vectorize_array(k, table[k], lc_map))

\* TCF(params, land_cover_map, state, litterfall) is called: the assertion
\* on the state, then the loop over params.items(), which stores one array
\* per required key of the table; calc keeps the arguments and the arrays
\* stored, with their shapes.  lc_map lists the classes of the land-cover
\* map in order, which has lc_ndim dimensions: (N,) or (1 x N).  When an
\* assertion fails the call raises and there is no instance.  One call is
\* followed per behaviour.
Construct(table, lc_map, lc_ndim, state, litter) ==
    /\ pc = "new"
    /\ calc = NoCalc
    /\ calc' = [fn |-> "TCF", table |-> table, lc_map |-> lc_map,
                lc_ndim |-> lc_ndim, state |-> state,
                raised |-> construct_raises(table, lc_map, lc_ndim, state),
                stored |-> IF construct_raises(table, lc_map, lc_ndim, state)
                           THEN <<>>
                           ELSE [k \in (DOMAIN table) \cap required_parameters |->
                                    vectorize_array(k, table[k], lc_map)]]
    /\ IF construct_raises(table, lc_map, lc_ndim, state)
       THEN UNCHANGED <<params, soc, litterfall, prev, soc_in, spin_in, pc>>
       ELSE /\ params' = Vectorize(table, lc_map)
            /\ soc' = state
            /\ litterfall' = litter
            /\ prev' = state
            /\ soc_in' = state
            /\ spin_in' = state
            /\ pc' = "idle"
    /\ UNCHANGED <<seen, ext, drivers, T, fr, sp, ret, calls, days>>

\* ------------------------------------------------------------ fieldcarb.models.TCF

\* fieldcarb's forward_run, litterfall derived:
\* npp_sum = climatology365(gpp.swapaxes(0, 1), dates).sum(axis = 0);
\* litter = npp_sum / 365
fc_derive_litter(g, nT) ==
    [i \in Pixels |-> Div(SumOver(climatology365(g[i], nT), 1..YearLen), I(YearLen))]

\* litter = self.constants.litterfall, or the derived one when that is None
fc_litter(litter, g, nT) ==
    IF litter.set THEN litter ELSE Litter(fc_derive_litter(g, nT))

\* fieldcarb's forward_run from the call of gpp to the pre-computed tmult and
\* wmult, gpp being known.
fc_setup_gpp(P, litter, cube, nT, g) ==
    setup_rest(P, fc_litter(litter, g, nT), cube, nT, g, npp_of(P, g, nT))

fc_setup_forward(P, litter, cube, nT) ==
    fc_setup_gpp(P, litter, cube, nT, gpp(P, cube, 6))

\* soc[i] += delta, for the three pools
fc_apply_deltas(soc_, dc) ==
    [p \in Pools |-> [i \in Pixels |-> Add(soc_[p][i], dc[p][i])]]

\* One pass of the body of the loop over t in fieldcarb's forward_run.
fc_day_result(P, soc_, litter, npp_t, rh_t) ==
    [soc |-> fc_apply_deltas(soc_, pool_deltas(P, litter, rh_t)),
     rh  |-> humify(P, rh_t),
     nee |-> nee_of(humify(P, rh_t), npp_t)]

fc_day_step(P, soc_, litter, wm, tm, npp_t) ==
    fc_day_result(P, soc_, litter, npp_t, respiration(P, wm, tm, soc_))

\* TCF.__init__ of fieldcarb with a table of global scalars, followed by the
\* caller's choice of a data set.
FcInit ==
    /\ params = Vectorize(TableScalar, [i \in Pixels |-> (i - 1) % 2])
    /\ soc \in SocInits
    /\ litterfall \in {NoLitter, Litter([i \in Pixels |-> One])}
    /\ ext = [p \in Pools |-> [i \in Pixels |-> I(p)]]
    /\ T \in 1..MaxT
    /\ \E c \in 1..Len(Climates) : drivers = Cube(c, T)
    /\ pc = "idle"
    /\ fr = NoFrame
    /\ sp = NoSpin
    /\ ret = NoRet
    /\ calls = 0
    /\ days = 0
    /\ prev = soc
    /\ soc_in = soc
    /\ spin_in = soc
    /\ seen = NoneSeen
    /\ calc = NoCalc

\* fieldcarb's forward_run(drivers, state, dates) is called: the assertions,
\* then the set-up, which stores a derived litterfall.
FcForwardRunCall(ovr, dates) ==
    /\ pc = "idle"
    /\ calls < MaxCalls
    /\ days + T <= MaxDays
    /\ calls' = calls + 1
    /\ IF setup_asserts(litterfall, dates, T)
       THEN     /\ fr' = enter_forward(fc_setup_forward(params, litterfall, drivers, T),
                                       ovr, FALSE, FALSE)
                /\ litterfall' = Litter(fr'.litter)
                /\ pc' = "fwd"
                /\ soc_in' = Target(ovr)
                /\ UNCHANGED ret
       ELSE /\ ret' = Error
            /\ UNCHANGED <<litterfall, fr, pc, soc_in>>
    /\ UNCHANGED <<params, seen, calc, soc, ext, drivers, T, sp, days, prev, spin_in>>

\* One pass of the loop "for t in steps" of fieldcarb's forward_run.
FcForwardStep ==
    /\ pc = "fwd"
    /\ fr.t < T
    /\ Len(Target(fr.ovr)) = 3
    /\ record_day(next_day(fr),
                  fc_day_step(params, Target(fr.ovr), fr.litter,
                              fr.wmult[next_day(fr)], fr.tmult[next_day(fr)],
                              [i \in Pixels |-> fr.npp[i][next_day(fr)]]))
    /\ prev' = Target(fr.ovr)
    /\ days' = days + 1
    /\ UNCHANGED <<params, seen, calc, litterfall, drivers, T, pc, sp, ret, calls,
                   soc_in, spin_in>>

\* ------------------------------------------------------------ specification

Next ==
    \/ \E ovr \in BOOLEAN, dyn \in BOOLEAN, dates \in {0, 1, T} :
           ForwardRunCall(ovr, dyn, dates)
    \/ ForwardStep
    \/ ForwardReturn
    \/ \E ovr \in BOOLEAN, max_steps \in 0..MaxSteps, threshold \in Thresholds :
           SpinUpCall(ovr, max_steps, threshold)
    \/ SpinCycle
    \/ SpinCycleEnd
    \/ SpinUpReturn

Spec == Init /\ [][Next]_vars

\* The steps of a running call, each named by its guard and by the change
\* that tells it from every other step of Next.
\* ForwardStep: the only step from "fwd" that counts a day
DayStepped == pc = "fwd" /\ fr.t < T /\ days' = days + 1

\* ForwardReturn, SpinCycleEnd: the steps that leave "fwd"
RunLeft == pc = "fwd" /\ fr.t = T /\ pc' \in {"idle", "spin"}

\* SpinCycle: the step that leaves "spin" while the loop continues
CycleEntered == pc = "spin" /\ loop_continues(sp) /\ pc' \in {"fwd", "idle"}

\* SpinUpReturn: the step that leaves "spin" when the loop is over
SpinLeft == pc = "spin" /\ ~loop_continues(sp) /\ pc' = "idle"

\* A call that has been started keeps running: the interpreter executes the
\* next statement of forward_run and of spin_up.  Whether a caller makes a
\* further call is left open.
FairSpec ==
    /\ Spec
    /\ WF_days(DayStepped)
    /\ WF_pc(RunLeft)
    /\ WF_pc(CycleEntered)
    /\ WF_pc(SpinLeft)

\* TCF.__init__ followed by the caller's choice of a data set around the
\* freezing point.
ApiInit ==
    /\ params = Vectorize(TablePerClass, [i \in Pixels |-> (i - 1) % 2])
    /\ soc = [p \in Pools |-> [i \in Pixels |-> I(<<4, 2, 8>>[p] + i - 1)]]
    /\ litterfall \in {NoLitter, Litter([i \in Pixels |-> One])}
    /\ ext = [p \in Pools |-> [i \in Pixels |-> I(p)]]
    /\ T \in 1..YearLen
    /\ drivers = BrinkCube(T)
    /\ pc = "idle"
    /\ fr = NoFrame
    /\ sp = NoSpin
    /\ ret = NoRet
    /\ calls = 0
    /\ days = 0
    /\ prev = soc
    /\ soc_in = soc
    /\ spin_in = soc
    /\ seen = NoneSeen
    /\ calc = NoCalc

\* The calls that update SOC, and the calculators gpp and rh.
ApiNext ==
    \/ Next
    \/ \E nfields \in {5, 6} : GppCall(nfields)
    \/ \E ovr \in BOOLEAN, t \in 1..T : RhCall(ovr, t)

ApiSpec == ApiInit /\ [][ApiNext]_vars

\* fieldcarb.models.TCF: forward_run; its return statement is that of
\* agstack's forward_run.
FcNext ==
    \/ \E ovr \in BOOLEAN, dates \in {0, 1, T} : FcForwardRunCall(ovr, dates)
    \/ FcForwardStep
    \/ ForwardReturn

FcSpec == FcInit /\ [][FcNext]_vars

\* The constraint functions of fieldcarb.utils, each called once on inputs
\* drawn from the value sets above, beside an instance that is not running.
UtilInit == ApiInit /\ T = 1 /\ litterfall = NoLitter

UtilNext ==
    \/ \E tsoil \in TsoilVals, beta0 \in Beta0Vals : ArrheniusCall(tsoil, beta0)
    \/ \E xmin \in [Pixels -> BoundVals], xmax \in [Pixels -> BoundVals],
          form \in Forms, x \in [Pixels -> XVals] :
           LinearConstraintCall(xmin, xmax, form, x)

UtilSpec == UtilInit /\ [][UtilNext]_vars

\* No instance yet; a caller with a data set and a SOC array of its own.
CtorInit ==
    /\ params = <<>>
    /\ soc = <<>>
    /\ litterfall = NoLitter
    /\ ext = [p \in Pools |-> [i \in Pixels |-> I(p)]]
    /\ T = 1
    /\ drivers = Cube(1, T)
    /\ pc = "new"
    /\ fr = NoFrame
    /\ sp = NoSpin
    /\ ret = NoRet
    /\ calls = 0
    /\ days = 0
    /\ prev = <<>>
    /\ soc_in = <<>>
    /\ spin_in = <<>>
    /\ seen = NoneSeen
    /\ calc = NoCalc

\* TCF.__init__ on every table form, class order and land-cover map.
CtorNext ==
    \E fo \in ParamForms, fd \in ParamForms, swap \in BOOLEAN, extra \in BOOLEAN,
       lc_map \in LcMaps, state \in SocInits,
       litter \in {NoLitter, Litter([i \in Pixels |-> One])} :
        Construct(TableOf(fo, fd, IF swap THEN ClassB ELSE ClassA,
                          IF swap THEN ClassA ELSE ClassB, extra),
                  lc_map, 1, state, litter)

CtorSpec == CtorInit /\ [][CtorNext]_vars

\* TCF.__init__ followed by the caller's choice of a data set and of a SOC
\* array of its own, of 2, 3 or 4 pools.
OvrInit ==
    /\ params = Vectorize(TablePerClass, [i \in Pixels |-> (i - 1) % 2])
    /\ soc = [p \in Pools |-> [i \in Pixels |-> I(<<4, 2, 8>>[p] + i - 1)]]
    /\ litterfall \in {NoLitter, Litter([i \in Pixels |-> One])}
    /\ ext \in SocMisshapen \cup {[p \in Pools |-> [i \in Pixels |-> I(p)]]}
    /\ T \in 1..MaxT
    /\ \E c \in 1..Len(Climates) : drivers = Cube(c, T)
    /\ pc = "idle"
    /\ fr = NoFrame
    /\ sp = NoSpin
    /\ ret = NoRet
    /\ calls = 0
    /\ days = 0
    /\ prev = soc
    /\ soc_in = soc
    /\ spin_in = soc
    /\ seen = NoneSeen
    /\ calc = NoCalc

\* forward_run, with and without the caller's array as the state override.
OvrNext ==
    \/ \E ovr \in BOOLEAN, dyn \in BOOLEAN, dates \in {0, 1, T} :
           ForwardRunCall(ovr, dyn, dates)
    \/ ForwardStep
    \/ ForwardAbort
    \/ ForwardReturn

OvrSpec == OvrInit /\ [][OvrNext]_vars

\* forward_run, and the calculators gpp and rh on cubes and on single-step
\* stacks.
PixNext ==
    \/ \E ovr \in BOOLEAN, dyn \in BOOLEAN, dates \in {0, T} :
           ForwardRunCall(ovr, dyn, dates)
    \/ ForwardStep
    \/ ForwardReturn
    \/ \E nfields \in {5, 6} : GppCall(nfields)
    \/ \E nfields \in {5, 6}, t \in 1..T : GppStackCall(nfields, t)
    \/ \E ovr \in BOOLEAN, t \in 1..T : RhCall(ovr, t)

PixSpec == ApiInit /\ [][PixNext]_vars

\* forward_run on stacks of 5, 7, 8 and 9 fields.
StackNext ==
    \/ \E layout \in Layouts, ovr \in BOOLEAN, dyn \in BOOLEAN, dates \in {0, T} :
           ForwardRunStack(layout, ovr, dyn, dates)
    \/ ForwardStep
    \/ ForwardReturn

StackSpec == ApiInit /\ [][StackNext]_vars

\* The driver cube is prepared from raw data by drivers_for_tcf, and gpp is
\* called on 5 or 6 of its fields.
PrepNext ==
    \/ \E c \in 1..Len(RawClimates) : DriversForTcfCall(RawCube(c, T))
    \/ \E nfields \in {5, 6} : GppCall(nfields)

PrepSpec == ApiInit /\ [][PrepNext]_vars

\* No instance yet; a caller with a data set and a SOC array of its own.
LifeInit ==
    /\ params = <<>>
    /\ soc = <<>>
    /\ litterfall = NoLitter
    /\ ext \in SocInits
    /\ T \in 1..YearLen
    /\ drivers = Cube(1, T)
    /\ pc = "new"
    /\ fr = NoFrame
    /\ sp = NoSpin
    /\ ret = NoRet
    /\ calls = 0
    /\ days = 0
    /\ prev = <<>>
    /\ soc_in = <<>>
    /\ spin_in = <<>>
    /\ seen = NoneSeen
    /\ calc = NoCalc

\* The caller builds an instance, handing its own SOC array to TCF.__init__
\* as the initial state, and then calls forward_run and spin_up with that
\* array as the state override or without an override.
LifeNext ==
    \/ \E lc_map \in LcMaps, litter \in {NoLitter, Litter([i \in Pixels |-> One])} :
           Construct(TablePerClass, lc_map, 1, ext, litter)
    \/ Next

LifeSpec == LifeInit /\ [][LifeNext]_vars

\* TCF.__init__ on arguments of every kind: tables that lack a required
\* key, land-cover maps of 1 and of 2 dimensions, states of 2, 3 and 4 pools.
BuildNext ==
    \E fo \in ParamForms, fd \in ParamForms,
       lack \in required_parameters \cup {"note"},
       lc_map \in LcMaps, lc_ndim \in {1, 2},
       state \in SocInits \cup SocMisshapen,
       litter \in {NoLitter, Litter([i \in Pixels |-> One])} :
        Construct(Lacking(TableOf(fo, fd, ClassA, ClassB, TRUE), lack),
                  lc_map, lc_ndim, state, litter)

BuildSpec == CtorInit /\ [][BuildNext]_vars

\* ------------------------------------------------------------ properties

\* History: whenever fr.t > 0, daily step fr.t of the last forward_run took
\* the updated SOC array from prev to After, reading the frame fr.
After == Target(fr.ovr)

\* The litterfall pixel i receives on day d.
RefLitter(d, i) == IF fr.dyn THEN fr.npp[i][d] ELSE fr.litter[i]

\* decay_rate[p] * moisture multiplier[d] * temperature multiplier[d] * s[p]
RefRh(s, d, p, i) ==
    Mul(params.decay_rates[p][i], Mul(fr.wmult[d][i], Mul(fr.tmult[d][i], s[p][i])))

\* The change of pool p on day d that the specification prescribes, all
\* respirations being taken from the SOC array s.
RefDelta(s, d, p, i) ==
    CASE p = 1 -> Sub(Mul(params.f_metabolic[i], RefLitter(d, i)), RefRh(s, d, 1, i))
      [] p = 2 -> Sub(Mul(Sub(One, params.f_metabolic[i]), RefLitter(d, i)),
                      RefRh(s, d, 2, i))
      [] p = 3 -> Sub(Mul(params.f_structural[i], RefRh(s, d, 2, i)), RefRh(s, d, 3, i))

\* The total RH recorded for pixel i on day d in the series rhs.
TotalRh(rhs, d, i) == Add(rhs[1][i][d], Add(rhs[2][i][d], rhs[3][i][d]))

\* C1: in every daily step of forward_run, for every pixel, each pool changes
\* by the prescribed amount (metabolic: f_metabolic * litterfall - rh_0;
\* structural: (1 - f_metabolic) * litterfall - rh_1; recalcitrant:
\* f_structural * rh_1 - rh_2), every respiration being computed from the SOC
\* as it was before the step and rh_1 being the structural respiration before
\* the humification reduction.  (Stated for the deltas that are not NaN.)
C1_PoolDeltas ==
    fr.t > 0 =>
        \A p \in Pools, i \in Pixels :
            ~IsNaN(RefDelta(prev, fr.t, p, i)) =>
                After[p][i] = Add(prev[p][i], RefDelta(prev, fr.t, p, i))

\* C1 witness: a second day has been stepped, on which a pixel with
\* 0 < f_structural < 1 respires from its structural pool, receives
\* litterfall and changes its recalcitrant pool.
C1_Witness ==
    /\ fr.t = 2
    /\ \E i \in Pixels :
           /\ \A p \in Pools : IsFinite(RefDelta(prev, 2, p, i))
           /\ RefRh(prev, 2, 2, i) # Zero
           /\ params.f_structural[i] \notin {Zero, One}
           /\ RefLitter(2, i) # Zero
           /\ After[3][i] # prev[3][i]
           /\ prev[2][i] # soc_in[2][i]

\* C2: carbon mass balance of one step: for every pixel and every day on
\* which no delta is NaN, the three pool changes applied that day sum to the
\* litterfall of the day minus the total RH recorded for the day.
C2_MassBalance ==
    fr.t > 0 =>
        \A i \in Pixels :
            (\A p \in Pools : ~IsNaN(RefDelta(prev, fr.t, p, i))) =>
                Add(Sub(After[1][i], prev[1][i]),
                    Add(Sub(After[2][i], prev[2][i]), Sub(After[3][i], prev[3][i])))
                  = Sub(RefLitter(fr.t, i), TotalRh(fr.rh, fr.t, i))

\* C2 witness: a step in which carbon is humified (moved from the structural
\* to the recalcitrant pool) and respired, with no NaN delta.
C2_Witness ==
    /\ fr.t > 0
    /\ \E i \in Pixels :
           /\ \A p \in Pools : IsFinite(RefDelta(prev, fr.t, p, i))
           /\ Mul(params.f_structural[i], RefRh(prev, fr.t, 2, i)) # Zero
           /\ TotalRh(fr.rh, fr.t, i) # Zero
           /\ RefLitter(fr.t, i) # Zero

\* C3: for every pixel and every day, the NEE forward_run records and
\* returns is the sum over the three pools of the RH it records and returns
\* minus CUE * GPP, GPP being the series it returns (NaN where that is NaN).
C3_NeeIdentity ==
    /\ fr.t > 0 =>
           \A i \in Pixels, d \in 1..fr.t :
               fr.nee[i][d] = Sub(TotalRh(fr.rh, d, i), Mul(params.CUE[i], fr.gpp[i][d]))
    /\ (pc = "idle" /\ ret.kind = "forward_run") =>
           \A i \in Pixels, d \in 1..T :
               ret.nee[i][d] = Sub(TotalRh(ret.rh, d, i), Mul(params.CUE[i], ret.gpp[i][d]))

\* C3 witness: forward_run has returned a day with respiration and
\* production that differ.
C3_Witness ==
    /\ pc = "idle"
    /\ ret.kind = "forward_run"
    /\ \E i \in Pixels, d \in 1..T :
           /\ IsFinite(ret.nee[i][d])
           /\ ret.gpp[i][d] # Zero
           /\ TotalRh(ret.rh, d, i) # Zero
           /\ ret.nee[i][d] # Zero

\* The SOC array s after the prescribed update of day d: a NaN change counts
\* as no change.
RefDay(s, d) ==
    [p \in Pools |-> [i \in Pixels |->
        IF IsNaN(RefDelta(s, d, p, i)) THEN s[p][i]
        ELSE Add(s[p][i], RefDelta(s, d, p, i))]]

\* The SOC array s after the updates of days 1, 2, ..., n, in this order.
RECURSIVE RefRun(_, _)
RefRun(s, n) == IF n = 0 THEN s ELSE RefDay(RefRun(s, n - 1), n)

\* The SOC array s after k successive runs over the T days of the drivers.
RECURSIVE RefCycles(_, _)
RefCycles(s, k) == IF k = 0 THEN s ELSE RefRun(RefCycles(s, k - 1), T)

Returned(kind) == pc = "idle" /\ ret.kind = kind

\* While forward_run runs, the array it updates holds the outcome of the
\* first fr.t days, taken in increasing order from the SOC it was called
\* with; when it has returned, all T days have been applied, the outputs
\* have one value per pixel and day (RH: per pool, pixel and day) and,
\* without a state override, the stored SOC is the outcome of day T.
C4_Safe ==
    /\ pc = "fwd" => (fr.t \in 0..T /\ After = RefRun(soc_in, fr.t))
    /\ Returned("forward_run") =>
           /\ fr.t = T
           /\ After = RefRun(soc_in, T)
           /\ ~fr.ovr => soc = RefRun(soc_in, T)
           /\ DOMAIN ret.nee = Pixels /\ DOMAIN ret.gpp = Pixels
           /\ DOMAIN ret.rh = Pools
           /\ \A i \in Pixels :
                  /\ DOMAIN ret.nee[i] = 1..T
                  /\ DOMAIN ret.gpp[i] = 1..T
                  /\ \A p \in Pools : DOMAIN ret.rh[p] = Pixels /\ DOMAIN ret.rh[p][i] = 1..T

\* A forward_run that has been called returns.
C4_Terminates == (pc = "fwd" /\ ~fr.nested) ~> Returned("forward_run")

\* C4: forward_run on T time points terminates after exactly T SOC updates,
\* made in increasing day order, each from the SOC the previous day left; it
\* returns NEE and GPP per pixel and day and RH per pool, pixel and day, and
\* without a state override the stored SOC holds the values after the last
\* day.
C4_ForwardRun == []C4_Safe /\ C4_Terminates

\* C4 witness: a forward_run over three days, the first two of which change
\* the stored SOC and differ in their drivers, has returned.
C4_Witness ==
    /\ Returned("forward_run")
    /\ T = 3
    /\ ~fr.ovr
    /\ fr.tmult[1] # fr.tmult[2]
    /\ RefRun(soc_in, 1) # soc_in
    /\ RefRun(soc_in, 2) # RefRun(soc_in, 1)
    /\ soc = RefRun(soc_in, 3)

\* The annual NEE sum of pixel i in cycle k of the last spin_up (NaN days
\* count as zero).
CycleSum(k, i) == NanSumSeq(sp.hist[k][i])

\* Cycle k >= 2 meets the convergence condition: for every pixel the annual
\* NEE sum differs from that of cycle k - 1 by less than the threshold.
ConvergedAt(k) ==
    \A i \in Pixels :
        Lt(AbsQ(Sub(CycleSum(k - 1, i), CycleSum(k, i))), sp.threshold)

\* C5: spin_up halts exactly when convergence is reached: the loop is left
\* right after the first cycle whose annual NEE sums differ from those of
\* the cycle before by less than the threshold for every pixel; no earlier
\* cycle ends it (other than by reaching max_steps) and no cycle follows one
\* that met the condition.
C5_HaltsAtConvergence ==
    sp.step > 0 =>
        /\ Len(sp.hist) = sp.cycles
        /\ sp.broke <=> (sp.cycles >= 2 /\ ConvergedAt(sp.cycles))
        /\ \A k \in 2..(sp.cycles - 1) : ~ConvergedAt(k)
        /\ Returned("spin_up") => (sp.broke \/ sp.cycles = sp.max_steps)
        /\ (pc = "fwd" /\ fr.nested) => ~sp.broke

\* C5 witness: spin_up has returned after its third cycle, which met the
\* condition that its second cycle had failed for one pixel only.
C5_Witness ==
    /\ Returned("spin_up")
    /\ sp.step > 0
    /\ sp.cycles = 3
    /\ sp.broke
    /\ ConvergedAt(3)
    /\ ~ConvergedAt(2)
    /\ \E i \in Pixels :
           Lt(AbsQ(Sub(CycleSum(1, i), CycleSum(2, i))), sp.threshold)

\* While spin_up runs it has started at most max_steps cycles; when it has
\* returned without the threshold being met, it has run max_steps cycles,
\* has returned the history and has left the SOC of max_steps successive
\* runs from the SOC it was called with.
C6_Safe ==
    /\ sp.step > 0 => sp.cycles <= sp.max_steps
    /\ (pc = "fwd" /\ fr.nested) => sp.cycles < sp.max_steps
    /\ (Returned("spin_up") /\ ~sp.broke) =>
           /\ sp.cycles = sp.max_steps
           /\ ret.tolerance = sp.tolerance
           /\ \A i \in Pixels : DOMAIN ret.tolerance[i] = 1..sp.max_steps
           /\ Target(sp.ovr) = RefCycles(spin_in, sp.max_steps)

\* At the cap, the threshold not being met, the next step of spin_up is the
\* normal return of the history.
C6_ReturnsAtCap ==
    [][(pc = "spin" /\ sp.cycles = sp.max_steps /\ ~sp.broke)
          => (pc' = "idle" /\ ret'.kind = "spin_up")]_vars

\* A spin_up that has been called comes to an end.
C6_Terminates == (pc = "spin") ~> (pc = "idle")

\* C6: spin_up always terminates after at most max_steps forward-run cycles;
\* when the cap is reached without the threshold being met it returns the
\* convergence history normally, and the SOC then reflects all max_steps
\* cycles.
C6_SpinUpBounded == []C6_Safe /\ C6_ReturnsAtCap /\ C6_Terminates

\* C6 witness: spin_up has returned after max_steps = 3 cycles that changed
\* the SOC, the threshold never having been met.
C6_Witness ==
    /\ Returned("spin_up")
    /\ sp.max_steps = 3
    /\ sp.cycles = 3
    /\ ~sp.broke
    /\ ~ConvergedAt(2)
    /\ ~ConvergedAt(3)
    /\ Target(sp.ovr) # RefCycles(spin_in, 2)

\* C7: the SOC is carried cumulatively across the cycles of spin_up and is
\* never reset: after k cycles it is the SOC that k successive forward runs
\* over the cycle's drivers produce from the initial SOC, and every cycle
\* starts from exactly the SOC the previous cycle left.
C7_Cumulative ==
    /\ (pc = "spin" \/ Returned("spin_up")) =>
           Target(sp.ovr) = RefCycles(spin_in, sp.cycles)
    /\ (pc = "fwd" /\ fr.nested) =>
           /\ soc_in = RefCycles(spin_in, sp.cycles)
           /\ After = RefRun(soc_in, fr.t)

\* C7 witness: a third cycle is under way on the stored SOC, which the first
\* two cycles have changed one after the other.
C7_Witness ==
    /\ pc = "fwd"
    /\ fr.nested
    /\ ~sp.ovr
    /\ sp.cycles = 2
    /\ fr.t > 0
    /\ RefCycles(spin_in, 1) # spin_in
    /\ RefCycles(spin_in, 2) # RefCycles(spin_in, 1)
    /\ soc # soc_in

\* C8 (as the specification states it): every cycle of spin_up runs the
\* forward engine over one year of YearLen days, whatever the number T of
\* time points in the driver cube.
C8_OneYearPerCycle ==
    (pc = "spin" /\ sp.cycles > 0) => fr.t = YearLen

NoNaN(s) == \A p \in Pools, i \in Pixels : ~IsNaN(s[p][i])

\* C9: a delta that is NaN is applied as no change and every other delta is
\* applied as it is, so that no NaN enters the SOC arrays, whatever the
\* drivers; the RH and NEE recorded for a day whose multipliers are NaN stay
\* NaN.
C9_NaNDeltasZeroed ==
    /\ NoNaN(soc)
    /\ NoNaN(ext)
    /\ fr.t > 0 =>
           /\ \A p \in Pools, i \in Pixels :
                  After[p][i] = IF IsNaN(RefDelta(prev, fr.t, p, i)) THEN prev[p][i]
                                ELSE Add(prev[p][i], RefDelta(prev, fr.t, p, i))
           /\ \A i \in Pixels, d \in 1..fr.t :
                  (IsNaN(fr.wmult[d][i]) \/ IsNaN(fr.tmult[d][i])) =>
                      /\ \A p \in Pools : IsNaN(fr.rh[p][i][d])
                      /\ IsNaN(fr.nee[i][d])

\* C9 witness: a day whose soil temperature is missing has been stepped for a
\* pixel with SOC: its three pools are unchanged and its RH and NEE of the
\* day are NaN, while another pixel has changed.
C9_Witness ==
    /\ fr.t > 0
    /\ \E i \in Pixels :
           /\ IsNaN(fr.tmult[fr.t][i])
           /\ \A p \in Pools :
                  /\ IsNaN(RefDelta(prev, fr.t, p, i))
                  /\ After[p][i] = prev[p][i]
                  /\ prev[p][i] # Zero
                  /\ IsNaN(fr.rh[p][i][fr.t])
           /\ IsNaN(fr.nee[i][fr.t])
    /\ \E j \in Pixels, p \in Pools :
           /\ IsFinite(RefDelta(prev, fr.t, p, j))
           /\ After[p][j] # prev[p][j]

InUnit(x) == Le(Zero, x) /\ Le(x, One)

\* The conditions of C10 on the coefficients and on what the last
\* forward_run has read so far.
C10_Given ==
    /\ \A i \in Pixels :
           /\ InUnit(params.f_metabolic[i])
           /\ InUnit(params.f_structural[i])
           /\ \A p \in Pools : InUnit(params.decay_rates[p][i])
    /\ litterfall.set => \A i \in Pixels : Ge(litterfall.v[i], Zero)
    /\ fr.t > 0 =>
           \A i \in Pixels, d \in 1..fr.t :
               /\ Ge(RefLitter(d, i), Zero)
               /\ InUnit(fr.wmult[d][i])
               /\ InUnit(fr.tmult[d][i])

\* C10: every SOC pool of every pixel is non-negative in every state that
\* forward_run and spin_up reach, the initial SOC and the litterfall being
\* non-negative and f_metabolic, f_structural, the decay rates and the
\* temperature and moisture multipliers lying in [0, 1].
C10_NonNegative ==
    C10_Given =>
        \A p \in Pools, i \in Pixels : Ge(soc[p][i], Zero) /\ Ge(ext[p][i], Zero)

\* C10 witness: under these conditions a day of full decay has been stepped:
\* a pool has respired all of its carbon, has shrunk to its share of the
\* litterfall and is not below zero.
C10_Witness ==
    /\ C10_Given
    /\ fr.t > 0
    /\ \E i \in Pixels, p \in Pools :
           /\ prev[p][i] # Zero
           /\ RefRh(prev, fr.t, p, i) = prev[p][i]
           /\ Lt(After[p][i], prev[p][i])
           /\ Ge(After[p][i], Zero)

\* C11: once the litterfall constant is established (supplied at
\* construction, or derived by the first forward_run that finds it unset), no
\* step of gpp, rh, forward_run or spin_up changes the stored constant, with
\* or without dynamic_litter and in every spin_up cycle; so it is derived at
\* most once.
C11_LitterfallStable == [][litterfall.set => litterfall' = litterfall]_vars

\* C11 happens: the constant was derived by a first call, gpp has been called,
\* and a later forward_run with dynamic_litter has run all its days on a
\* litterfall (the day's NPP) that differs from the constant.
C11_Witness ==
    /\ calls = 2
    /\ pc = "fwd"
    /\ fr.dyn
    /\ fr.t = T
    /\ litterfall.set
    /\ litterfall.v # [i \in Pixels |-> One]
    /\ litter_of(fr, T) # litterfall.v
    /\ seen[6].set

\* The litterfall the specification prescribes for the data set at hand: the
\* sum over the climatological year of the daily NPP = CUE * GPP, over the
\* length of the year.
MeanAnnualNPP == derive_litter(npp_of(params, gpp(params, drivers, 6), T), T)

\* C12: a forward_run that finds the litterfall unset stores (sum over the
\* climatological year of daily NPP) / 365 for each pixel before its first
\* daily step, and without dynamic_litter every daily step of the run uses
\* the stored constant.
C12_MeanAnnualNPP ==
    /\ [][(~litterfall.set /\ litterfall'.set)
            => (litterfall'.v = MeanAnnualNPP /\ pc' = "fwd" /\ fr'.t = 0)]_vars
    /\ []((pc = "fwd" /\ ~fr.dyn) => litter_of(fr, fr.t) = litterfall.v)

\* C12 happens in agstack: a run without dynamic_litter has taken all its
\* days on a derived litterfall.
C12_Witness ==
    /\ pc = "fwd"
    /\ ~fr.dyn
    /\ fr.t = T
    /\ T >= YearLen
    /\ litterfall.v = MeanAnnualNPP
    /\ litterfall.v # [i \in Pixels |-> One]
    /\ \E i \in Pixels : IsFinite(litterfall.v[i]) /\ Gt(litterfall.v[i], Zero)

\* What a failed call leaves behind: the error, and nothing else changed.
FailedCall ==
    /\ ret' = Error
    /\ pc' = "idle"
    /\ UNCHANGED <<soc, ext, litterfall, days, fr, prev, params>>

\* C13: forward_run called while the litterfall is unset fails with an error
\* when no dates are supplied, or when the dates or the driver time points
\* are fewer than a year, whatever dynamic_litter is; it fails before any
\* daily step: SOC is unchanged and the litterfall stays unset.
C13_FailsWithoutYear ==
    [][\A ovr \in BOOLEAN, dyn \in BOOLEAN, dates \in {0, 1, T} :
          (/\ ~litterfall.set
           /\ (dates = 0 \/ dates < YearLen \/ T < YearLen)
           /\ ForwardRunCall(ovr, dyn, dates))
          => (FailedCall /\ ~litterfall'.set)]_vars

\* C13 happens: a call has failed although the drivers span a year (the
\* dates were missing or too few), and nothing has run.
C13_Witness ==
    /\ ret = Error
    /\ pc = "idle"
    /\ calls = 1
    /\ T >= YearLen
    /\ ~litterfall.set
    /\ days = 0
    /\ soc = soc_in

\* The same failure in fieldcarb's forward_run (which has no dynamic_litter).
C13_FailsInFieldcarb ==
    [][\A ovr \in BOOLEAN, dates \in {0, 1, T} :
          (/\ ~litterfall.set
           /\ (dates = 0 \/ dates < YearLen \/ T < YearLen)
           /\ FcForwardRunCall(ovr, dates))
          => (FailedCall /\ ~litterfall'.set)]_vars

\* NPP of pixel i on day d of the running forward_run: CUE * GPP
DayNPP(d, i) == Mul(params.CUE[i], fr.gpp[i][d])

\* The sum of the changes the last daily step made to the pools of pixel i.
TotalChange(i) ==
    Add(Sub(After[1][i], prev[1][i]),
        Add(Sub(After[2][i], prev[2][i]), Sub(After[3][i], prev[3][i])))

\* C14: under dynamic_litter the litterfall of every day, the first one
\* included, is that day's NPP for every pixel: the metabolic and the
\* structural pool receive f_metabolic and 1 - f_metabolic of it; and on a
\* day without NaN deltas the total SOC change of a pixel is the day's NPP
\* minus the total RH recorded for the day, which is minus the day's NEE.
C14_DynamicLitter ==
    (pc = "fwd" /\ fr.dyn /\ fr.t > 0) =>
        \A i \in Pixels :
            /\ litter_of(fr, fr.t)[i] = DayNPP(fr.t, i)
            /\ (\A p \in Pools : ~IsNaN(RefDelta(prev, fr.t, p, i))) =>
                   /\ After[1][i] =
                          Add(prev[1][i],
                              Sub(Mul(DayNPP(fr.t, i), params.f_metabolic[i]),
                                  RefRh(prev, fr.t, 1, i)))
                   /\ After[2][i] =
                          Add(prev[2][i],
                              Sub(Mul(DayNPP(fr.t, i), Sub(One, params.f_metabolic[i])),
                                  RefRh(prev, fr.t, 2, i)))
                   /\ TotalChange(i) = Sub(DayNPP(fr.t, i), TotalRh(fr.rh, fr.t, i))
                   /\ TotalChange(i) = Neg(fr.nee[i][fr.t])

\* C14 happens: the first day of a run with dynamic_litter has been stepped
\* for a pixel whose NPP of that day is finite, is not zero and differs from
\* the litterfall constant, and whose pools changed in total.
C14_Witness ==
    /\ pc = "fwd"
    /\ fr.dyn
    /\ fr.t = 1
    /\ \E i \in Pixels :
           /\ \A p \in Pools : IsFinite(RefDelta(prev, 1, p, i))
           /\ DayNPP(1, i) # Zero
           /\ DayNPP(1, i) # fr.litter[i]
           /\ TotalChange(i) # Zero
           /\ TotalRh(fr.rh, 1, i) # Zero

\* C15: gpp and rh are read-only: a call of either leaves the model's SOC,
\* the caller's SOC override, the vectorized parameters and the litterfall
\* constant as they were; and every call of gpp returns what the first call
\* with the same fields returned, whatever forward_run and spin_up did to
\* SOC in between.
C15_ReadOnly ==
    /\ [][(ret' # ret /\ ret'.kind \in {"gpp", "rh"})
            => UNCHANGED <<soc, ext, params, litterfall>>]_vars
    /\ [](ret.kind = "gpp" =>
             seen[ret.nfields].set /\ ret.out = seen[ret.nfields].out)

\* C15 happens: gpp has returned again after a forward_run that followed the
\* first call of gpp and changed SOC, and rh has not been the last call.
C15_Witness ==
    /\ pc = "idle"
    /\ ret.kind = "gpp"
    /\ seen[ret.nfields].set
    /\ seen[ret.nfields].days = 0
    /\ days > 0
    /\ After # soc_in
    /\ \E i \in Pixels, t \in 1..T : IsFinite(ret.out[i][t]) /\ ret.out[i][t] # Zero

\* The freeze-thaw flag of one pixel and day, d being its driver values, in
\* a gpp call on nfields fields: derived from Tmin when there are 5 fields,
\* the sixth field otherwise.
FlagOf(d, nfields) ==
    IF nfields = 5 THEN (IF Lt(d.tmin, Q(27315, 100)) THEN Zero ELSE One) ELSE d.ft

\* GPP of one pixel and day with the freeze-thaw multiplier m and the other
\* three multipliers e.
GppWith(d, m, e, lue) ==
    Mul(Mul(Mul(d.par, d.fpar), Mul(Mul(Mul(m, e.f_tmin), e.f_vpd), e.f_smrz)), lue)

\* C16: in a 5-field gpp call the freeze-thaw flag of a pixel and day is 0
\* exactly when Tmin < 273.15 K and 1 otherwise (1 at exactly 273.15 K); with
\* 6 fields the flag is the sixth field; and the freeze-thaw multiplier that
\* enters the returned GPP is the pixel's ft0 where the flag is 0 and exactly
\* 1 elsewhere.
C16_FreezeThaw ==
    ret.kind = "gpp" =>
        \A i \in Pixels, t \in 1..T :
            LET d == drivers[i][t]
                e == diagnose_emult(params, drivers, ret.nfields, i, t)
                m == IF FlagOf(d, ret.nfields) = Zero THEN params.ft0[i] ELSE One
            IN  /\ e.ft = m
                /\ ret.out[i][t] = GppWith(d, m, e, params.LUE[i])

\* C16 happens: a 5-field gpp call has returned for a pixel with ft0 < 1 that
\* has a day at exactly 273.15 K (flagged frozen in the sixth field, which
\* the call ignores) and a day below 273.15 K, both with GPP.
C16_Witness ==
    /\ ret.kind = "gpp"
    /\ ret.nfields = 5
    /\ \E i \in Pixels, t \in 1..T, u \in 1..T :
           /\ params.ft0[i] # One
           /\ drivers[i][t].tmin = Q(27315, 100)
           /\ drivers[i][t].ft = Zero
           /\ Lt(drivers[i][u].tmin, Q(27315, 100))
           /\ IsFinite(ret.out[i][t]) /\ ret.out[i][t] # Zero
           /\ IsFinite(ret.out[i][u]) /\ ret.out[i][u] # Zero
           /\ seen[6].set
           /\ seen[6].out[i][t] # ret.out[i][t]

\* The share of the way from lo to hi at which x lies.
Share(lo, hi, x) == Div(Sub(x, lo), Sub(hi, lo))

\* What is required of y, the value the function returned by
\* linear_constraint(lo, hi, form) gives for x, and of its values elsewhere.
RampAt(lo, hi, form, x, y) ==
    CASE form = "standard" ->
           /\ InUnit(y)
           /\ y = (IF Lt(x, lo) THEN Zero ELSE IF Ge(x, hi) THEN One
                   ELSE Share(lo, hi, x))
           /\ \A z \in XVals :
                  Le(x, z) => Le(y, linear_constraint(lo, hi, form, z))
      [] form = "reversed" ->
           /\ InUnit(y)
           /\ y = (IF Lt(x, lo) THEN One ELSE IF Ge(x, hi) THEN Zero
                   ELSE Sub(One, Share(lo, hi, x)))
           /\ \A z \in XVals :
                  Le(x, z) => Ge(y, linear_constraint(lo, hi, form, z))
      [] form = "binary" -> y = (IF x = One THEN hi ELSE lo)

\* C17 as claimed: for bounds with xmax >= xmin and every input x, NaN
\* included, the function returned by linear_constraint yields a value in
\* [0, 1] that follows the ramp of its form.
C17_RampEveryInput ==
    (calc.fn = "linear_constraint" /\ ~calc.raised) =>
        \A i \in Pixels :
            Ge(calc.xmax[i], calc.xmin[i]) =>
                RampAt(calc.xmin[i], calc.xmax[i], calc.form, calc.x[i], calc.out[i])

\* C17, amended: for bounds with xmax >= xmin and every input x that is a
\* number (infinite or finite, not NaN), the function returned by
\* linear_constraint yields a value in [0, 1]: standard form 0 below xmin, 1
\* at or above xmax, (x - xmin)/(xmax - xmin) between, non-decreasing;
\* reversed form 1 below xmin, 0 at or above xmax, 1 - (x - xmin)/(xmax - xmin)
\* between, non-increasing; binary form xmax when x is exactly 1 and xmin
\* otherwise (for every x); the degenerate case xmin = xmax included.  For a
\* NaN input the standard and the reversed form yield NaN.
C17_RampOfNumbers ==
    (calc.fn = "linear_constraint" /\ ~calc.raised) =>
        \A i \in Pixels :
            Ge(calc.xmax[i], calc.xmin[i]) =>
                IF IsNaN(calc.x[i]) /\ calc.form # "binary"
                THEN IsNaN(calc.out[i])
                ELSE RampAt(calc.xmin[i], calc.xmax[i], calc.form, calc.x[i],
                            calc.out[i])

\* C17 happens: a standard ramp has been applied to one pixel with
\* xmin = xmax at x = xmax and to another pixel strictly inside its ramp.
C17_Witness ==
    /\ calc.fn = "linear_constraint"
    /\ ~calc.raised
    /\ calc.form = "standard"
    /\ \E i \in Pixels, j \in Pixels :
           /\ calc.xmin[i] = calc.xmax[i]
           /\ calc.x[i] = calc.xmax[i]
           /\ calc.out[i] = One
           /\ Lt(calc.xmin[j], calc.x[j]) /\ Lt(calc.x[j], calc.xmax[j])
           /\ Gt(calc.out[j], Zero) /\ Lt(calc.out[j], One)

\* C18: linear_constraint fails with an error whenever, outside the binary
\* form, its bounds violate xmax >= xmin, also when they are per-pixel arrays
\* and only some pixels violate it; in the binary form it never fails on the
\* order of the bounds.
C18_FailsOnDisorder ==
    calc.fn = "linear_constraint" =>
        IF calc.form = "binary" THEN ~calc.raised
        ELSE (\E i \in Pixels : Lt(calc.xmax[i], calc.xmin[i])) => calc.raised

\* The part of C18 the code meets: outside the binary form the call fails
\* when every pixel's bounds are out of order, and only then.
C18_FailsOnFullDisorder ==
    calc.fn = "linear_constraint" =>
        (calc.raised <=> (/\ calc.form # "binary"
                          /\ \A i \in Pixels : Lt(calc.xmax[i], calc.xmin[i])))

\* The raw value of the Arrhenius function:
\* exp(beta0 * (1 / beta1 - 1 / (tsoil - beta2)))
RawArrhenius(tsoil, beta0) ==
    ExpQ(Mul(beta0, Sub(Recip(beta1), Recip(Sub(tsoil, beta2)))))

\* The raw value y0 is returned as y: 1 when above 1, 0 when below 0, and as
\* it is otherwise.
Clamped(y0, y) ==
    /\ Gt(y0, One) => y = One
    /\ Lt(y0, Zero) => y = Zero
    /\ (Le(Zero, y0) /\ Le(y0, One)) => y = y0

\* C19 as claimed: for all inputs, soil temperatures at or below beta2 and
\* missing (NaN) ones included, the output of arrhenius lies in [0, 1], raw
\* values above 1 being returned as 1 and raw values below 0 as 0.
C19_UnitEveryInput ==
    calc.fn = "arrhenius" =>
        /\ InUnit(calc.out)
        /\ Clamped(RawArrhenius(calc.tsoil, calc.beta0), calc.out)

\* C19, amended: for every soil temperature that is a number (at, below or
\* above beta2, infinite included) the output of arrhenius lies in [0, 1],
\* raw values above 1 being returned as 1 and raw values below 0 as 0; for a
\* missing (NaN) soil temperature the output is NaN.
C19_UnitOfNumbers ==
    calc.fn = "arrhenius" =>
        IF IsNaN(calc.tsoil) THEN IsNaN(calc.out)
        ELSE /\ InUnit(calc.out)
             /\ Clamped(RawArrhenius(calc.tsoil, calc.beta0), calc.out)

\* C19 happens: arrhenius has been applied to a soil temperature below beta2,
\* whose raw value exceeds 1, and has returned 1.
C19_Witness ==
    /\ calc.fn = "arrhenius"
    /\ IsFinite(calc.tsoil)
    /\ Lt(calc.tsoil, beta2)
    /\ Gt(RawArrhenius(calc.tsoil, calc.beta0), One)
    /\ calc.out = One

\* The value a table entry v gives for class c (1-based) of an ordinary key.
ClassValue(v, c) ==
    CASE v.form = "scalar" -> v.v
      [] v.form = "perclass" -> v.v[c]
      [] v.form = "array2d" -> v.v[1][c]

\* The decay rate a table entry v gives for pool p of class c (1-based).
ClassRate(v, c, p) ==
    CASE v.form = "scalar" -> v.v[p]
      [] v.form = "perclass" -> v.v[c][p]
      [] v.form = "array2d" -> v.v[p][c]

C21_MissingKeyFails ==
    (calc.fn = "TCF" /\ ~(required_parameters \subseteq DOMAIN calc.table)) =>
        (calc.raised /\ pc = "new")

\* What the constructor does with such a table: the instance holds the
\* parameters of the keys the table has, and none for the missing key.
C21_MissingKeyUnresolved ==
    (calc.fn = "TCF" /\ ~calc.raised) =>
        DOMAIN params = (DOMAIN calc.table) \cap required_parameters

\* C22, at construction: a SOC state that does not have exactly three pools
\* is rejected with an error, and there is no instance.
C22_StateRejectedAtConstruction ==
    (calc.fn = "TCF" /\ Len(calc.state) # 3) => (calc.raised /\ pc = "new")

\* C22, in forward_run: a state override that does not have exactly three
\* pools is never modified (every call it is handed to aborts before any of
\* its pool values has been updated).
C22_OverrideRejected == [][Len(ext) # 3 => ext' = ext]_vars

\* With a pool too many the call does abort before any update, and no call
\* on a misshapen override returns.
C22_FourPoolsRejected ==
    /\ [][Len(ext) > 3 => ext' = ext]_vars
    /\ [](Len(ext) # 3 /\ pc = "idle" /\ ret.kind = "forward_run" => ~fr.ovr)

\* C23: constructing a model with a land-cover map that is not
\* 1-dimensional fails at construction.
C23_MapRejected ==
    (calc.fn = "TCF" /\ calc.lc_ndim # 1) => (calc.raised /\ pc = "new")

\* What the constructor does with a (1 x N) map: it raises exactly when the
\* table indexes some key by the map along an axis (decay_rates as nested
\* lists or as a 2-D array, another key as a 2-D array).
C23_MapRejectedWhenIndexed ==
    (calc.fn = "TCF" /\ calc.lc_ndim = 2 /\ state_assert(calc.state)) =>
        (calc.raised <=>
            \E k \in (DOMAIN calc.table) \cap required_parameters :
                IF k = "decay_rates" THEN calc.table[k].form # "scalar"
                ELSE calc.table[k].form = "array2d")

\* ------------------------------------------------------------ driver stacks

\* C24: forward_run aborts with an error, before any SOC update, when the
\* driver stack it is given does not have exactly 8 fields (the call of the
\* last forward_run has ended with an error and has not entered its loop).
C24_FieldCountRejected ==
    (calc.fn = "forward_run" /\ calc.nfields # 8) =>
        (pc = "idle" /\ ret = Error)

\* What forward_run does with a stack of 7 fields that omits the freeze-thaw
\* field: it runs, reading the soil temperature (never 0) in the place of
\* the flag, so that every day counts as thawed.
C24_SoilTemperatureReadAsFlag ==
    (calc.fn = "forward_run" /\ calc.nfields = 7 /\ pc = "fwd") =>
        fr.gpp = gpp(params,
                     [i \in Pixels |-> [t \in 1..T |->
                         [drivers[i][t] EXCEPT !.ft = drivers[i][t].tsoil]]], 6)

\* ------------------------------------------------------------ pixels

\* Driver series another pixel could have over nT days.
OtherSeries(nT) == {[t \in 1..nT |-> DayOf(c, t)] : c \in 1..Len(Climates)}

\* Values another pixel could have for a SOC pool, a litterfall, a daily
\* NPP or a multiplier.
OtherValues == {Zero, Q(1, 2), I(7), NaN}

\* The vectorized parameters P with pixel j given the coefficients C.
WithClass(P, j, C) ==
    [k \in DOMAIN P |->
        IF k = "decay_rates" THEN [p \in Pools |-> [P[k][p] EXCEPT ![j] = C[k][p]]]
        ELSE [P[k] EXCEPT ![j] = C[k]]]

\* The (3 x N) SOC array s with the pools of pixel j set to v.
WithSoc(s, j, v) == [p \in Pools |-> [s[p] EXCEPT ![j] = v]]

\* gpp on a cube: the GPP series returned for pixel i is the one returned
\* when another pixel j has other drivers and other parameters.
PixelwiseGpp ==
    ret.kind = "gpp" =>
        \A i \in Pixels : \A j \in Pixels \ {i}, x \in OtherSeries(T),
           C \in {ClassA, ClassB} :
            gpp(WithClass(params, j, C), [drivers EXCEPT ![j] = x], ret.nfields)[i]
                = ret.out[i]

\* gpp on a single-step stack: the GPP returned for pixel i (the entry that
\* applies the parameters of pixel i to the drivers of pixel i) is the one
\* returned when another pixel j has other drivers and other parameters.
PixelwiseGppStack ==
    ret.kind = "gpp_stack" =>
        \A i \in Pixels : \A j \in Pixels \ {i}, x \in OtherSeries(T),
           C \in {ClassA, ClassB} :
            gpp_stack(WithClass(params, j, C),
                      [stack_of(drivers, ret.t) EXCEPT ![j] = x[ret.t]],
                      ret.nfields)[i][i]
                = ret.out[i][i]

\* rh: the RH returned for the pools of pixel i is the one returned when
\* another pixel j has other drivers, other parameters and other SOC.
PixelwiseRh ==
    (pc = "idle" /\ ret.kind = "rh") =>
        \A i \in Pixels : \A j \in Pixels \ {i}, x \in OtherSeries(T),
           C \in {ClassA, ClassB}, v \in OtherValues, p \in Pools :
            rh(WithClass(params, j, C),
               [tsoil_of(drivers, ret.t) EXCEPT ![j] = x[ret.t].tsoil],
               [smsf_of(drivers, ret.t) EXCEPT ![j] = x[ret.t].smsf],
               WithSoc(Target(ret.ovr), j, v))[p][i]
                = ret.out[p][i]

\* forward_run, the set-up: GPP, NPP, the derived litterfall and the two
\* multipliers of pixel i are those computed when another pixel j has other
\* drivers and other parameters.
PixelwiseSetup ==
    pc = "fwd" =>
        \A i \in Pixels : \A j \in Pixels \ {i}, x \in OtherSeries(T),
           C \in {ClassA, ClassB} :
            LET su == setup_forward(WithClass(params, j, C), NoLitter,
                                    [drivers EXCEPT ![j] = x], T)
            IN  /\ su.gpp[i] = fr.gpp[i]
                /\ su.npp[i] = fr.npp[i]
                /\ su.litter[i] = derive_litter(fr.npp, T)[i]
                /\ \A t \in 1..T : /\ su.tmult[t][i] = fr.tmult[t][i]
                                    /\ su.wmult[t][i] = fr.wmult[t][i]

\* forward_run, the daily step: the SOC of pixel i after the day and the RH
\* and NEE recorded for it are those obtained when another pixel j has other
\* parameters, SOC, litterfall, NPP and multipliers.
PixelwiseStep ==
    (pc = "fwd" /\ fr.t > 0) =>
        \A i \in Pixels : \A j \in Pixels \ {i}, C \in {ClassA, ClassB},
           v \in OtherValues, w \in OtherValues :
            LET r == day_step(WithClass(params, j, C), WithSoc(prev, j, v),
                              [litter_of(fr, fr.t) EXCEPT ![j] = w],
                              [fr.wmult[fr.t] EXCEPT ![j] = w],
                              [fr.tmult[fr.t] EXCEPT ![j] = v],
                              [[k \in Pixels |-> fr.npp[k][fr.t]] EXCEPT ![j] = w])
            IN  /\ \A p \in Pools : /\ r.soc[p][i] = After[p][i]
                                     /\ r.rh[p][i] = fr.rh[p][i][fr.t]
                /\ r.nee[i] = fr.nee[i][fr.t]

\* C25: there is no cross-pixel dependency: for gpp, rh and forward_run the
\* outputs and the resulting SOC of pixel i are unchanged by any change of
\* the drivers, parameters, SOC and litterfall of another pixel j, on
\* single-step stacks and on multi-step cubes; in particular the soil
\* moisture of pixel i is rescaled by the minimum of its own series.
C25_NoCrossPixel ==
    /\ PixelwiseGpp
    /\ PixelwiseGppStack
    /\ PixelwiseRh
    /\ PixelwiseSetup
    /\ PixelwiseStep

\* What holds of the code: no cross-pixel dependency for gpp on cubes, for
\* rh on single-step stacks and for the set-up and every daily step of
\* forward_run.
C25_NoCrossPixelOnCubes ==
    /\ PixelwiseGpp
    /\ PixelwiseRh
    /\ PixelwiseSetup
    /\ PixelwiseStep

\* ------------------------------------------------------------ spin-up history

\* C26: the history spin_up returns has one row per pixel and max_steps
\* entries per row (so at most max_steps); for every executed cycle s after
\* the first, entry [pixel][s] is the annual NEE sum of cycle s - 1 minus
\* that of cycle s; the entry of the first cycle and the entries of the
\* cycles that were never executed are NaN.
C26_History ==
    Returned("spin_up") =>
        /\ DOMAIN ret.tolerance = Pixels
        /\ \A i \in Pixels :
               /\ Len(ret.tolerance[i]) = sp.max_steps
               /\ \A s \in 1..sp.max_steps :
                      ret.tolerance[i][s] =
                          IF s >= 2 /\ s <= sp.cycles
                          THEN Sub(CycleSum(s - 1, i), CycleSum(s, i))
                          ELSE NaN

\* C26 happens: spin_up has returned a history of 3 entries per pixel after
\* 2 cycles: the second entry of a pixel is a non-zero difference, which is
\* not the difference taken the other way round, and its first and third
\* entries are NaN.
C26_Witness ==
    /\ Returned("spin_up")
    /\ sp.max_steps = 3
    /\ sp.cycles = 2
    /\ \E i \in Pixels :
           /\ IsFinite(ret.tolerance[i][2])
           /\ ret.tolerance[i][2] # Zero
           /\ ret.tolerance[i][2] = Sub(CycleSum(1, i), CycleSum(2, i))
           /\ IsNaN(ret.tolerance[i][1])
           /\ IsNaN(ret.tolerance[i][3])

\* ------------------------------------------------------------ calculators and the forward run

\* What rh() returns for the soil temperature and surface soil moisture of
\* day d, evaluated on the SOC array s.
RhOn(s, d) == rh(params, tsoil_of(drivers, d), smsf_of(drivers, d), s)

\* C27: the forward-run step and the stand-alone RH calculator agree: for
\* every day of forward_run, every pool and every pixel, the RH recorded
\* for the day is what rh() returns for the day's soil temperature and
\* surface soil moisture on the SOC as it was immediately before the day's
\* update: the structural pool's respiration reduced by the factor
\* (1 - f_structural), the other two in full.
C27_StepAgreesWithRh ==
    (pc = "fwd" /\ fr.t > 0) =>
        \A p \in Pools, i \in Pixels :
            /\ fr.rh[p][i][fr.t] = RhOn(prev, fr.t)[p][i]
            /\ fr.rh[p][i][fr.t] =
                   Mul(RefRh(prev, fr.t, p, i),
                       IF p = 2 THEN Sub(One, params.f_structural[i]) ELSE One)

\* C27 happens: a second day has been stepped for a pixel with
\* 0 < f_structural < 1 whose three pools respire, the first day having
\* changed the SOC so that rh() on the SOC the run started from gives
\* another value.
C27_Witness ==
    /\ pc = "fwd"
    /\ fr.t = 2
    /\ \E i \in Pixels :
           /\ params.f_structural[i] \notin {Zero, One}
           /\ \A p \in Pools : /\ IsFinite(fr.rh[p][i][2])
                                /\ fr.rh[p][i][2] # Zero
           /\ fr.rh[2][i][2] # RefRh(prev, 2, 2, i)
           /\ RhOn(soc_in, 2)[2][i] # fr.rh[2][i][2]

\* ------------------------------------------------------------ ownership of SOC

\* A daily step of the running forward_run is taken.
DailyStep == pc = "fwd" /\ days' = days + 1

\* C28: with a state override, every daily update of forward_run and of
\* spin_up is applied to the override array and the model's stored SOC is
\* left unchanged; without an override the updates are applied to the
\* stored SOC, and the array the caller passed to the constructor (of which
\* the constructor stored a copy) is not modified.  Nothing but a daily step
\* changes either array, and every cycle of spin_up updates the array
\* spin_up was called on.
C28_Ownership ==
    /\ [][DailyStep =>
             IF fr.ovr
             THEN ext' = RefDay(ext, fr.t + 1) /\ soc' = soc
             ELSE soc' = RefDay(soc, fr.t + 1) /\ ext' = ext]_vars
    /\ [][(pc # "new" /\ ~DailyStep) => (soc' = soc /\ ext' = ext)]_vars
    /\ [][pc = "new" => (ext' = ext /\ (pc' = "idle" => soc' = ext))]_vars
    /\ []((pc = "fwd" /\ fr.nested) => fr.ovr = sp.ovr)

\* C28 happens: the instance was built from the caller's array; a run with
\* that array as the override has changed it and left the stored SOC as
\* constructed, and a cycle of a spin_up without override is now changing
\* the stored SOC and not the caller's array.
C28_Witness ==
    /\ calc.fn = "TCF"
    /\ calc.state # ext
    /\ pc = "fwd"
    /\ fr.nested
    /\ ~fr.ovr
    /\ fr.t > 0
    /\ soc # calc.state
    /\ soc # prev
    /\ soc # ext

\* ------------------------------------------------------------ composition over time

\* Days a..b of a cube, as a cube of b - a + 1 days.
SubCube(cube, a, b) ==
    [i \in Pixels |-> [t \in 1..(b - a + 1) |-> cube[i][a + t - 1]]]

\* What a forward_run without dynamic litter does on a cube of n days for
\* an instance whose litterfall constant is lit: su is its set-up; the SOC
\* it leaves after day d from the SOC s, and the RH it records for day d.
SetupOn(cube, n, lit) == setup_forward(params, Litter(lit), cube, n)

RECURSIVE SocOn(_, _, _)
SocOn(su, s, d) ==
    IF d = 0 THEN s
    ELSE day_step(params, SocOn(su, s, d - 1), su.litter, su.wmult[d], su.tmult[d],
                  [i \in Pixels |-> su.npp[i][d]]).soc

RhOn2(su, s, d) ==
    day_step(params, SocOn(su, s, d - 1), su.litter, su.wmult[d], su.tmult[d],
             [i \in Pixels |-> su.npp[i][d]]).rh

\* C29: forward integration composes over time: the litterfall constant
\* being set and dynamic_litter off, for every split point 0 < k < T a
\* forward_run on the first k days followed by one on the remaining T - k
\* days, on the same state, leaves the final SOC and records the per-day RH
\* that one forward_run over all T days leaves and returns.
C29_Composes ==
    (Returned("forward_run") /\ ~fr.dyn) =>
        \A k \in 1..(T - 1) :
            LET one == SetupOn(SubCube(drivers, 1, k), k, fr.litter)
                two == SetupOn(SubCube(drivers, k + 1, T), T - k, fr.litter)
                mid == SocOn(one, soc_in, k)
            IN  /\ SocOn(two, mid, T - k) = Target(fr.ovr)
                /\ \A p \in Pools, i \in Pixels :
                       /\ \A d \in 1..k : RhOn2(one, soc_in, d)[p][i] = ret.rh[p][i][d]
                       /\ \A d \in 1..(T - k) :
                              RhOn2(two, mid, d)[p][i] = ret.rh[p][i][k + d]

\* C29 happens: a forward_run without dynamic litter has returned after 3
\* days that each changed the SOC, on a cube whose first day alone gives a
\* pixel another GPP than it has as the first of the three days (the soil
\* moisture being rescaled by the minimum of the days supplied).
C29_Witness ==
    /\ Returned("forward_run")
    /\ ~fr.dyn
    /\ T = 3
    /\ Target(fr.ovr) # soc_in
    /\ SocOn(SetupOn(SubCube(drivers, 1, 1), 1, fr.litter), soc_in, 1)
           \notin {soc_in, Target(fr.ovr)}
    /\ \E i \in Pixels :
           /\ IsFinite(ret.gpp[i][1])
           /\ SetupOn(SubCube(drivers, 1, 1), 1, fr.litter).gpp[i][1] # ret.gpp[i][1]

\* ------------------------------------------------------------ prepared drivers

\* C30: the freeze-thaw field produced by drivers_for_tcf agrees with the
\* model's own derivation: for every pixel and time step whose minimum
\* temperature (in kelvin, within the accepted range) is below 273.15 K the
\* FT field is 0 and otherwise 1, so gpp on the 6 GPP fields of the prepared
\* cube equals gpp on its first 5 fields.
C30_FreezeThawAgrees ==
    (calc.fn = "drivers_for_tcf" /\ ~calc.raised) =>
        /\ \A i \in Pixels, t \in 1..T :
               drivers[i][t].ft =
                   IF Lt(calc.raw[i][t].tmin, Freezing) THEN Zero ELSE One
        /\ (Returned("gpp") /\ ret.nfields = 6) =>
               ret.out = gpp(params, drivers, 5)

\* What drivers_for_tcf does instead: every cube it returns has the FT field
\* 1 throughout (a minimum temperature below 0 fails the assertion on the
\* kelvin range), the two gpp calls agree on the days that are not below
\* 273.15 K, and on a day below 273.15 K the 6-field call leaves out the ft0
\* the 5-field call applies.
C30_AlwaysThawed ==
    (calc.fn = "drivers_for_tcf" /\ ~calc.raised) =>
        /\ \A i \in Pixels, t \in 1..T : drivers[i][t].ft = One
        /\ (Returned("gpp") /\ ret.nfields = 6) =>
               \A i \in Pixels, t \in 1..T :
                   IF Lt(drivers[i][t].tmin, Freezing)
                   THEN Mul(params.ft0[i], ret.out[i][t]) = gpp(params, drivers, 5)[i][t]
                   ELSE ret.out[i][t] = gpp(params, drivers, 5)[i][t]

\* A raw series in degrees Celsius is rejected and leaves the caller's cube
\* as it was.
C30_CelsiusRejected ==
    (calc.fn = "drivers_for_tcf"
        /\ \E i \in Pixels, t \in 1..T : Lt(calc.raw[i][t].tmin, Zero))
    => (calc.raised /\ drivers = BrinkCube(T))

\* The two gpp calls do differ: on a cube returned by drivers_for_tcf the
\* 6-field call has returned a finite GPP for a pixel and day below 273.15 K
\* that is not the GPP of the 5-field call.
C30_GppDiffers ==
    /\ calc.fn = "drivers_for_tcf"
    /\ ~calc.raised
    /\ Returned("gpp")
    /\ ret.nfields = 6
    /\ \E i \in Pixels, t \in 1..T :
           /\ Lt(drivers[i][t].tmin, Freezing)
           /\ IsFinite(ret.out[i][t])
           /\ ret.out[i][t] # gpp(params, drivers, 5)[i][t]

====
